---- MODULE Spec2Model ----
(***************************************************************************)
(* githooklib: discovery of hook implementations, the collision-checked   *)
(* name -> implementation map, the delegator script written into          *)
(* .git/hooks, install / uninstall, and the classifier of installed       *)
(* scripts.                                                                *)
(*                                                                         *)
(* Text is modelled with TLA+ strings (sequences of characters): a file   *)
(* content is the sequence of its lines, a path is the tuple of its       *)
(* components as in pathlib's Path.parts ("/" first for absolute paths),  *)
(* a module name is the dotted string Python uses.                        *)
(***************************************************************************)
EXTENDS Integers, Sequences, FiniteSets, TLC

(***************************************************************************)
(* Bounds of the model                                                     *)
(***************************************************************************)
\* largest |exit_code| a HookResult is constructed with
MaxExit == 30

(***************************************************************************)
(* Program constants                                                       *)
(***************************************************************************)
EXIT_SUCCESS == 0
EXIT_FAILURE == 1
\* 0o755, the mode _make_script_executable sets
ExecutableMode == 493

(***************************************************************************)
(* Python string operations                                                *)
(***************************************************************************)
RECURSIVE find(_, _, _)
\* str.find(sub, start), 1-based; 0 where Python returns -1
find(s, sub, start) ==
  IF start + Len(sub) - 1 > Len(s) THEN 0
  ELSE IF SubSeq(s, start, start + Len(sub) - 1) = sub THEN start
  ELSE find(s, sub, start + 1)

\* the Python expression `sub in s`
contains(s, sub) == find(s, sub, 1) # 0

\* str.endswith(suffix)
endswith(s, suffix) ==
  /\ Len(suffix) <= Len(s)
  /\ SubSeq(s, Len(s) - Len(suffix) + 1, Len(s)) = suffix

RECURSIVE split(_, _)
\* str.split(sep) for a one-character separator
split(s, sep) ==
  LET i == find(s, sep, 1) IN
  IF i = 0 THEN <<s>>
  ELSE <<SubSeq(s, 1, i - 1)>> \o split(SubSeq(s, i + 1, Len(s)), sep)

RECURSIVE join(_, _)
\* sep.join(parts)
join(parts, sep) ==
  IF Len(parts) = 0 THEN ""
  ELSE IF Len(parts) = 1 THEN parts[1]
  ELSE parts[1] \o sep \o join(Tail(parts), sep)

RECURSIVE rfind(_, _, _)
\* str.rfind(ch) scanning down from position i; 0 where Python returns -1
rfind(s, ch, i) ==
  IF i < 1 THEN 0
  ELSE IF SubSeq(s, i, i) = ch THEN i
  ELSE rfind(s, ch, i - 1)

\* PurePath.stem: the final component without its last suffix
stem(name) ==
  LET i == rfind(name, ".", Len(name)) IN
  IF i <= 1 THEN name ELSE SubSeq(name, 1, i - 1)

\* PurePath.with_suffix(suffix) applied to the final component
with_suffix(name, suffix) == stem(name) \o suffix

(***************************************************************************)
(* constants.py: the delegator template.  The source is an f-string, so   *)
(* its doubled braces are single braces in the value bound to the name.   *)
(***************************************************************************)
DELEGATOR_SCRIPT_TEMPLATE ==
  <<
    "#!/usr/bin/env python3",
    "",
    "import logging",
    "import os",
    "import subprocess",
    "import sys",
    "from pathlib import Path",
    "from typing import Optional",
    "",
    "",
    "def find_git_root_via_command() -> Optional[Path]:",
    "    try:",
    "        result = subprocess.run(",
    "            [\"git\", \"rev-parse\", \"--show-toplevel\"],",
    "            capture_output=True,",
    "            text=True,",
    "            check=True,",
    "        )",
    "        git_root = Path(result.stdout.strip()).resolve()",
    "        if (git_root / \".git\").exists():",
    "            return git_root",
    "        return None",
    "    except (subprocess.CalledProcessError, FileNotFoundError):",
    "        return None",
    "",
    "",
    "def find_project_root() -> Optional[Path]:",
    "    git_root = find_git_root_via_command()",
    "    if not git_root:",
    "        return None",
    "    ",
    "    return git_root.parent",
    "",
    "",
    "def _is_debug_enabled() -> bool:",
    "    debug_env = os.getenv(\"GITHOOKLIB_DEBUG\", \"\").lower()",
    "    return debug_env in (\"1\", \"true\", \"yes\")",
    "",
    "",
    "def _get_log_level() -> Optional[int]:",
    "    return logging.DEBUG if _is_debug_enabled() else None",
    "",
    "",
    "def _print_error_and_exit(module_name: str) -> None:",
    "    module_file_path = \"/\".join(module_name.split(\".\")) + \".py\"",
    "    error_message = f\"Error: Could not find project root containing {module_name}\"",
    "    file_message = \"Looked for module file: \" + module_file_path",
    "    print(error_message, file=sys.stderr)",
    "    print(file_message, file=sys.stderr)",
    "    sys.exit(1)",
    "",
    "",
    "def main() -> None:",
    "    module_name = \"{module_name}\"",
    "    ",
    "    project_root = find_project_root()",
    "    if not project_root:",
    "        _print_error_and_exit(module_name)",
    "    ",
    "    sys.path.insert(0, str(project_root))",
    "    from {module_name} import {class_name}",
    "    ",
    "    log_level = _get_log_level()",
    "    hook = {class_name}(log_level=log_level)",
    "    exit_code = hook.run()",
    "    sys.exit(exit_code)",
    "",
    "",
    "if __name__ == \"__main__\":",
    "    main()"
  >>

RECURSIVE Formatter_parse(_)
\* string.Formatter.parse, the first step of str.format: the format string
\* as a sequence of (literal text, replacement field) pairs, the field ""
\* where the text ends without one
Formatter_parse(s) ==
  LET open == find(s, "{", 1) IN
  IF open = 0 THEN << <<s, "">> >>
  ELSE LET close == find(s, "}", open)
       IN << << SubSeq(s, 1, open - 1), SubSeq(s, open + 1, close - 1) >> >>
            \o Formatter_parse(SubSeq(s, close + 1, Len(s)))

\* the template, parsed once
ParsedTemplate ==
  [i \in 1..Len(DELEGATOR_SCRIPT_TEMPLATE) |->
     Formatter_parse(DELEGATOR_SCRIPT_TEMPLATE[i])]

RECURSIVE vformat(_, _, _)
\* the second step of str.format(module_name=..., class_name=...): every
\* replacement field gives way to the argument of its name
vformat(pairs, module_name, class_name) ==
  IF Len(pairs) = 0 THEN ""
  ELSE LET literal == Head(pairs)[1]
           field == Head(pairs)[2]
           value == IF field = "module_name" THEN module_name
                    ELSE IF field = "class_name" THEN class_name
                    ELSE ""
       IN literal \o value \o vformat(Tail(pairs), module_name, class_name)

\* DELEGATOR_SCRIPT_TEMPLATE.format(module_name=..., class_name=...), line
\* by line
format(module_name, class_name) ==
  [i \in 1..Len(DELEGATOR_SCRIPT_TEMPLATE) |->
     vformat(ParsedTemplate[i], module_name, class_name)]

(***************************************************************************)
(* definitions.py / git_hook.py: HookResult                                *)
(***************************************************************************)
\* HookResult without the branch that resets the exit code of a success
HookResult_failure_only(success, message, exit_code) ==
  [success   |-> success,
   message   |-> message,
   exit_code |-> IF exit_code = EXIT_SUCCESS /\ ~success THEN EXIT_FAILURE
                 ELSE exit_code]

\* HookResult.__post_init__: the exit code is brought in line with success
HookResult(success, message, exit_code) ==
  [success   |-> success,
   message   |-> message,
   exit_code |-> IF exit_code = EXIT_SUCCESS /\ ~success THEN EXIT_FAILURE
                 ELSE IF exit_code # EXIT_SUCCESS /\ success THEN EXIT_SUCCESS
                 ELSE exit_code]

(***************************************************************************)
(* pathlib: a path is the tuple of its parts                               *)
(***************************************************************************)
\* the value None where a path is expected (every real path has a part)
None == <<>>

\* PurePath.parent
parent(p) == IF p = <<"/">> THEN p ELSE SubSeq(p, 1, Len(p) - 1)

RECURSIVE parents(_)
\* PurePath.parents, nearest ancestor first
parents(p) ==
  IF p = <<"/">> \/ p = <<>> THEN <<>> ELSE <<parent(p)>> \o parents(parent(p))

\* [current] + list(current.parents)
self_and_parents(p) == <<p>> \o parents(p)

\* whether PurePath.relative_to(base) succeeds (it raises ValueError otherwise)
is_relative_to(p, base) ==
  /\ Len(base) <= Len(p)
  /\ SubSeq(p, 1, Len(base)) = base

\* PurePath.relative_to(base)
relative_to(p, base) == SubSeq(p, Len(base) + 1, Len(p))

\* Path.is_absolute
is_absolute(p) == Len(p) > 0 /\ p[1] = "/"

\* str(path)
str(p) ==
  IF is_absolute(p) THEN "/" \o join(Tail(p), "/") ELSE join(p, "/")

(***************************************************************************)
(* The modelled world: one project directory, its .git directory, the     *)
(* hook source files it may hold and the working directories a process    *)
(* may be started in.                                                      *)
(***************************************************************************)
\* the two locations of the project directory (before and after a rename)
Repos == { <<"/", "w", "proj">>, <<"/", "w", "moved">> }

\* a directory outside every repository
OutsideDir == <<"/", "tmp">>

\* the subdirectory of the project a process may be started in
SubDir == <<"sub">>

\* the working directories of a process when the project is at r
Cwds(r) == { r, r \o SubDir, OutsideDir }

\* hook source files, relative to the project directory
PreCommitFile == <<"githooks", "pre_commit.py">>
PrePushFile   == <<"githooks", "pre_push.py">>
ExampleFile   == <<"githooklib", "examples", "pre_commit_black.py">>
LegacyFile    == <<"legacy_hook.py">>
SourceFiles   == { PreCommitFile, PrePushFile, ExampleFile, LegacyFile }

\* the directories that hold source files, in a fixed order
SourceDirs == << <<>>, <<"githooks">>, <<"githooklib", "examples">> >>

\* the class each source file defines (githooks/pre_commit.py:5,
\* githooklib/examples/pre_commit_black.py:15)
ClassNameOf(f) ==
  CASE f = PreCommitFile -> "PreCommit"
    [] f = PrePushFile   -> "PrePush"
    [] f = ExampleFile   -> "PreCommit"
    [] f = LegacyFile    -> "LegacyHook"

\* the names install / uninstall / run are asked for; no source declares the last
HookNames == { "pre-commit", "pre-push", "commit-msg" }

\* hook classes defined outside the hook source files (a script that embeds
\* the API and subclasses GitHook itself)
ExtraClasses ==
  { [module |-> "__main__", name |-> "AdHocHook", hook_name |-> "pre-commit"] }

\* the values of hook_search_paths: the default and those set_hook_paths is given
DefaultSearchPaths == << <<"githooks">> >>
SearchPathOptions ==
  { DefaultSearchPaths, << <<"githooklib", "examples">> >> }

\* a hand-authored hook script (tests/e2e/test_operations/test_uninstall.py:50)
ExternalScript == << "#!/bin/sh", "echo 'External hook'" >>

\* mode of a file created by write_text under umask 022 (0o644)
CreateMode == 6 * 64 + 4 * 8 + 4

VARIABLES
  repo,               \* where the project directory is
  gitDir,             \* "none": no .git; "nohooks": .git without hooks/; "full"
  libDir,             \* whether <repo>/githooklib exists
  sources,            \* status of every hook source file
  slot,               \* <repo>/.git/hooks: file name -> [content, mode, installer]
  cwd,                \* Path.cwd() of the running process
  registry,           \* GitHook._registered_hooks
  sys_modules,        \* sys.modules: module name -> file it was loaded from
  sys_path,           \* sys.path
  project_root,       \* HookAPI.project_root
  hook_search_paths,  \* HookAPI.hook_search_paths
  _hooks,             \* HookAPI._hooks, the memo: [cached, map]
  result,             \* outcome of the last operation
  lastInstall,        \* the last successful install, while the hook-slot
                      \* directory is as that install left it
  hook_result,        \* the HookResult constructed last
  renders             \* the renders logged for one (module, class) pair

vars == << repo, gitDir, libDir, sources, slot, cwd, registry,
           sys_modules, sys_path, project_root, hook_search_paths, _hooks,
           result, lastInstall, hook_result, renders >>

worldVars   == << repo, gitDir, libDir, sources >>
processVars == << cwd, registry, sys_modules, sys_path,
                  project_root, hook_search_paths, _hooks >>

(***************************************************************************)
(* The filesystem                                                          *)
(***************************************************************************)
Range(f) == { f[i] : i \in DOMAIN f }

HooksDir == repo \o <<".git", "hooks">>

\* the hook source file at absolute path p, if any
IsSourceFile(p) ==
  \E f \in SourceFiles : sources[f] # "absent" /\ p = repo \o f

\* stat.S_IFDIR, the file type bits of a directory (0o040000)
S_IFDIR == 4 * 4096

\* stat.S_ISDIR
S_ISDIR(mode) == (mode \div 4096) % 16 = 4

\* the owner may read a file of this mode (S_IRUSR, 0o400)
S_IRUSR(mode) == (mode \div 256) % 2 = 1

\* Path.is_file
is_file(p) ==
  \/ IsSourceFile(p)
  \/ gitDir = "full" /\ \E n \in DOMAIN slot :
                           p = HooksDir \o <<n>> /\ ~S_ISDIR(slot[n].mode)

\* Path.is_dir
is_dir(p) ==
  \/ is_relative_to(repo \o SubDir, p)
  \/ is_relative_to(OutsideDir, p)
  \/ gitDir # "none" /\ p = repo \o <<".git">>
  \/ gitDir = "full" /\ p = HooksDir
  \/ gitDir = "full" /\ \E n \in DOMAIN slot :
                           p = HooksDir \o <<n>> /\ S_ISDIR(slot[n].mode)
  \/ libDir /\ p = repo \o <<"githooklib">>
  \/ \E f \in SourceFiles :
       sources[f] # "absent" /\ is_relative_to(parent(repo \o f), p)

\* Path.exists
exists(p) == is_file(p) \/ is_dir(p)

\* the enumerations of a finite set
Orders(S) ==
  { o \in [1..Cardinality(S) -> S] : \A i, j \in DOMAIN o : o[i] = o[j] => i = j }

RECURSIVE ListingsFrom(_)
ListingsFrom(dirs) ==
  IF Len(dirs) = 0 THEN { <<>> }
  ELSE LET here == { repo \o f : f \in { g \in SourceFiles :
                        sources[g] # "absent" /\ parent(g) = Head(dirs) } }
       IN { a \o b : a \in Orders(here), b \in ListingsFrom(Tail(dirs)) }

\* the orders in which the filesystem may enumerate the source files: any
\* order within one directory
Listings == ListingsFrom(SourceDirs)

\* Path.glob(pattern) for the patterns "*.py" and "*_hook.py", the entries
\* in the order of listing o
glob(dir, suffix, o) ==
  LET Match(p) == parent(p) = dir /\ endswith(p[Len(p)], suffix)
  IN SelectSeq(o, Match)

(***************************************************************************)
(* The import system.  st is the part of the interpreter state a load     *)
(* changes: [sys_path, sys_modules, registry, raised].                     *)
(***************************************************************************)
\* the file, relative to a sys.path entry, that holds module module_name
ModuleFile(module_name) ==
  LET parts == split(module_name, ".")
  IN SubSeq(parts, 1, Len(parts) - 1) \o << parts[Len(parts)] \o ".py" >>

\* the status of the source file at absolute path p
StatusAt(p) == sources[relative_to(p, repo)]

\* GitHook.__init_subclass__: the class statement appends to the registry
__init_subclass__(reg, cls) == Append(reg, cls)

\* __import__(module_name): a module already in sys.modules is not executed
\* again; otherwise the first sys.path entry that holds its file is executed,
\* which registers the hook class the file defines
__import__(module_name, st) ==
  IF module_name \in DOMAIN st.sys_modules THEN st
  ELSE LET Holds(d) == IsSourceFile(d \o ModuleFile(module_name))
           hits == SelectSeq(st.sys_path, Holds)
       IN IF Len(hits) = 0 THEN [st EXCEPT !.raised = "ModuleNotFoundError"]
          ELSE LET origin == hits[1] \o ModuleFile(module_name)
                   status == StatusAt(origin)
               IN IF status = "broken" THEN [st EXCEPT !.raised = "SyntaxError"]
                  ELSE [st EXCEPT
                          !.sys_modules = (module_name :> origin) @@ @,
                          !.registry = __init_subclass__(@,
                             [module    |-> module_name,
                              name      |-> ClassNameOf(relative_to(origin, repo)),
                              hook_name |-> status])]

(***************************************************************************)
(* api.py: HookAPI                                                         *)
(***************************************************************************)
\* HookAPI._find_project_root: the nearest ancestor of cwd holding githooklib
HookAPI_find_project_root(dir) ==
  LET Holds(q) == exists(q \o <<"githooklib">>)
      hits == SelectSeq(self_and_parents(dir), Holds)
  IN IF Len(hits) = 0 THEN None ELSE hits[1]

RECURSIVE search_path_modules(_, _)
\* the loop over hook_search_paths of _find_hook_modules
search_path_modules(paths, o) ==
  IF Len(paths) = 0 THEN <<>>
  ELSE LET search_path == Head(paths)
           search_dir == IF is_absolute(search_path) THEN search_path
                         ELSE cwd \o search_path
           NotInit(q) == q[Len(q)] # "__init__.py"
           found == IF exists(search_dir) /\ is_dir(search_dir)
                    THEN SelectSeq(glob(search_dir, ".py", o), NotInit)
                    ELSE <<>>
       IN found \o search_path_modules(Tail(paths), o)

\* the search of the configured paths left out
_find_hook_modules_legacy_only(o) ==
  IF project_root # None THEN glob(project_root, "_hook.py", o) ELSE <<>>

\* HookAPI._find_hook_modules
_find_hook_modules(o) ==
  (IF project_root # None THEN glob(project_root, "_hook.py", o) ELSE <<>>)
    \o search_path_modules(hook_search_paths, o)

\* the base directory _import_hook_module resolves a module path against:
\* `self.project_root or Path.cwd()`
import_base_dir == IF project_root # None THEN project_root ELSE cwd

\* _import_hook_module inserting the directory without a look at sys.path
_import_hook_module_inserting(module_path, st) ==
  LET base_dir == import_base_dir
      file_name == module_path[Len(module_path)]
  IN IF is_relative_to(module_path, base_dir)
     THEN LET relative_path == relative_to(module_path, base_dir)
              parts == SubSeq(relative_path, 1, Len(relative_path) - 1)
                         \o << stem(file_name) >>
              module_name == join(parts, ".")
          IN __import__(module_name,
               [st EXCEPT !.sys_path = <<base_dir>> \o @])
     ELSE LET parent_dir == parent(module_path)
          IN __import__(stem(file_name),
               [st EXCEPT !.sys_path = <<parent_dir>> \o @])

\* HookAPI._import_hook_module
_import_hook_module(module_path, st) ==
  LET base_dir == import_base_dir
      file_name == module_path[Len(module_path)]
  IN IF is_relative_to(module_path, base_dir)
     THEN LET relative_path == relative_to(module_path, base_dir)
              parts == SubSeq(relative_path, 1, Len(relative_path) - 1)
                         \o << stem(file_name) >>
              module_name == join(parts, ".")
          IN __import__(module_name,
               IF base_dir \in Range(st.sys_path) THEN st
               ELSE [st EXCEPT !.sys_path = <<base_dir>> \o @])
     ELSE LET parent_dir == parent(module_path)
          IN __import__(stem(file_name),
               IF parent_dir \in Range(st.sys_path) THEN st
               ELSE [st EXCEPT !.sys_path = <<parent_dir>> \o @])

RECURSIVE load_all_skipping(_, _)
\* the loop with each load in a try statement that skips a file that fails
load_all_skipping(hook_modules, st) ==
  IF Len(hook_modules) = 0 THEN st
  ELSE LET loaded == _import_hook_module(Head(hook_modules), st)
       IN load_all_skipping(Tail(hook_modules),
                            IF loaded.raised # "" THEN st ELSE loaded)

RECURSIVE load_all(_, _)
\* the loop `for module_path in hook_modules`, left by the first exception
load_all(hook_modules, st) ==
  IF Len(hook_modules) = 0 \/ st.raised # "" THEN st
  ELSE load_all(Tail(hook_modules), _import_hook_module(Head(hook_modules), st))

\* HookAPI._find_module_file: the origin importlib reports, relative to the
\* project root when it lies under it; None for a module without a spec
_find_module_file(module_name, mods) ==
  IF module_name \notin DOMAIN mods THEN ""
  ELSE LET origin == mods[module_name]
       IN IF project_root # None /\ is_relative_to(origin, project_root)
          THEN str(relative_to(origin, project_root))
          ELSE str(origin)

\* the error naming the first class of a name only
class_lines_first(hook_classes, mods) ==
  << "    - " \o hook_classes[1].name \o " in module '"
       \o hook_classes[1].module \o "'" >>

RECURSIVE class_lines(_, _)
\* the inner loop of _raise_duplicate_hook_error
class_lines(hook_classes, mods) ==
  IF Len(hook_classes) = 0 THEN <<>>
  ELSE LET hook_class == Head(hook_classes)
           module_file == _find_module_file(hook_class.module, mods)
           line == IF module_file # ""
                   THEN "    - " \o hook_class.name \o " in " \o module_file
                   ELSE "    - " \o hook_class.name \o " in module '"
                          \o hook_class.module \o "'"
       IN <<line>> \o class_lines(Tail(hook_classes), mods)

RECURSIVE first_seen(_, _)
\* the keys of hook_classes_by_name in insertion order
first_seen(reg, seen) ==
  IF Len(reg) = 0 THEN <<>>
  ELSE IF Head(reg).hook_name \in seen THEN first_seen(Tail(reg), seen)
  ELSE <<Head(reg).hook_name>>
         \o first_seen(Tail(reg), seen \cup { Head(reg).hook_name })

\* hook_classes_by_name[hook_name]
classes_named(reg, hook_name) ==
  LET Named(c) == c.hook_name = hook_name IN SelectSeq(reg, Named)

\* the duplicate check made on the classes this call's loads appended only
duplicates_in_loaded(reg) ==
  LET loaded == SubSeq(reg, Len(registry) + 1, Len(reg))
      IsDuplicate(n) == Len(classes_named(loaded, n)) > 1
  IN SelectSeq(first_seen(loaded, {}), IsDuplicate)

\* the duplicate check skipped
duplicates_unchecked(reg) == <<>>

\* the keys of the dict `duplicates` of discover_hooks: the names of
\* hook_classes_by_name with more than one class
duplicates_in(reg) ==
  LET IsDuplicate(n) == Len(classes_named(reg, n)) > 1
  IN SelectSeq(first_seen(reg, {}), IsDuplicate)

RECURSIVE duplicate_lines(_, _, _)
\* the outer loop of _raise_duplicate_hook_error over the duplicates
duplicate_lines(names, reg, mods) ==
  IF Len(names) = 0 THEN <<>>
  ELSE << "\n  Hook '" \o Head(names) \o "' is defined in multiple classes:" >>
         \o class_lines(classes_named(reg, Head(names)), mods)
         \o duplicate_lines(Tail(names), reg, mods)

\* HookAPI._raise_duplicate_hook_error: the lines of the ValueError text
_raise_duplicate_hook_error(duplicates, reg, mods) ==
  << "Duplicate hook implementations found:" >>
    \o duplicate_lines(duplicates, reg, mods)

\* the empty dict
EmptyMap == [n \in {} |-> n]

\* discover_hooks without the return of the empty map for an unresolved
\* project root
discover_hooks_rootless(o) ==
  LET st0 == [sys_path |-> sys_path, sys_modules |-> sys_modules,
              registry |-> registry, raised |-> ""]
      untouched == [raised |-> "", error_lines |-> <<>>, st |-> st0,
                    memo |-> _hooks, loaded |-> FALSE, map |-> EmptyMap]
  IN IF _hooks.cached THEN [untouched EXCEPT !.map = _hooks.map]
     ELSE
       LET st == load_all(_find_hook_modules(o), st0)
           names == first_seen(st.registry, {})
           duplicates == duplicates_in(st.registry)
           hooks == [n \in Range(names) |-> classes_named(st.registry, n)[1]]
       IN IF st.raised # ""
          THEN [untouched EXCEPT !.raised = st.raised, !.st = st, !.loaded = TRUE]
          ELSE IF Len(duplicates) > 0
          THEN [untouched EXCEPT
                  !.raised = "ValueError", !.st = st, !.loaded = TRUE,
                  !.error_lines =
                     _raise_duplicate_hook_error(duplicates, st.registry,
                                                 st.sys_modules)]
          ELSE [untouched EXCEPT
                  !.st = st, !.loaded = TRUE, !.map = hooks,
                  !.memo = [cached |-> TRUE, map |-> hooks]]

\* discover_hooks with the registry read before the candidates are loaded
discover_hooks_registry_first(o) ==
  LET st0 == [sys_path |-> sys_path, sys_modules |-> sys_modules,
              registry |-> registry, raised |-> ""]
      untouched == [raised |-> "", error_lines |-> <<>>, st |-> st0,
                    memo |-> _hooks, loaded |-> FALSE, map |-> EmptyMap]
  IN IF _hooks.cached THEN [untouched EXCEPT !.map = _hooks.map]
     ELSE IF project_root = None THEN untouched
     ELSE
       LET st == load_all(_find_hook_modules(o), st0)
           names == first_seen(st0.registry, {})
           duplicates == duplicates_in(st0.registry)
           hooks == [n \in Range(names) |-> classes_named(st0.registry, n)[1]]
       IN IF st.raised # ""
          THEN [untouched EXCEPT !.raised = st.raised, !.st = st, !.loaded = TRUE]
          ELSE IF Len(duplicates) > 0
          THEN [untouched EXCEPT
                  !.raised = "ValueError", !.st = st, !.loaded = TRUE,
                  !.error_lines =
                     _raise_duplicate_hook_error(duplicates, st.registry,
                                                 st.sys_modules)]
          ELSE [untouched EXCEPT
                  !.st = st, !.loaded = TRUE, !.map = hooks,
                  !.memo = [cached |-> TRUE, map |-> hooks]]

\* HookAPI.discover_hooks under listing o.  The outcome carries what the
\* call raised ("" when it returned), the returned map, the error text and
\* the interpreter state and memo it leaves.
discover_hooks(o) ==
  LET st0 == [sys_path |-> sys_path, sys_modules |-> sys_modules,
              registry |-> registry, raised |-> ""]
      untouched == [raised |-> "", error_lines |-> <<>>, st |-> st0,
                    memo |-> _hooks, loaded |-> FALSE, map |-> EmptyMap]
  IN IF _hooks.cached THEN [untouched EXCEPT !.map = _hooks.map]
     ELSE IF project_root = None THEN untouched
     ELSE
       LET st == load_all(_find_hook_modules(o), st0)
           names == first_seen(st.registry, {})
           duplicates == duplicates_in(st.registry)
           hooks == [n \in Range(names) |-> classes_named(st.registry, n)[1]]
       IN IF st.raised # ""
          THEN [untouched EXCEPT !.raised = st.raised, !.st = st, !.loaded = TRUE]
          ELSE IF Len(duplicates) > 0
          THEN [untouched EXCEPT
                  !.raised = "ValueError", !.st = st, !.loaded = TRUE,
                  !.error_lines =
                     _raise_duplicate_hook_error(duplicates, st.registry,
                                                 st.sys_modules)]
          ELSE [untouched EXCEPT
                  !.st = st, !.loaded = TRUE, !.map = hooks,
                  !.memo = [cached |-> TRUE, map |-> hooks]]

(***************************************************************************)
(* git_hook.py: GitHook                                                    *)
(***************************************************************************)
\* the (module, class) pairs of the hook classes of the modelled world
KnownClasses ==
  { <<"githooks.pre_commit", "PreCommit">>,
    <<"githooks.pre_push", "PrePush">>,
    <<"githooklib.examples.pre_commit_black", "PreCommit">>,
    <<"legacy_hook", "LegacyHook">>,
    <<"__main__", "AdHocHook">> }

\* their scripts, formatted once
Formatted == [k \in KnownClasses |-> format(k[1], k[2])]

\* the script with the project root the generating process found written
\* into it
_generate_delegator_script_rooted(module_name, class_name) ==
  format(module_name, class_name)
    \o << "PROJECT_ROOT = \"" \o str(project_root) \o "\"" >>

\* GitHook._generate_delegator_script
_generate_delegator_script(module_name, class_name) ==
  IF <<module_name, class_name>> \in KnownClasses
  THEN Formatted[<<module_name, class_name>>]
  ELSE format(module_name, class_name)

\* GitHook._find_git_root (HookAPI._find_git_root is the same code): the
\* nearest ancestor of cwd that holds .git
_find_git_root ==
  LET Holds(q) == exists(q \o <<".git">>)
      hits == SelectSeq(self_and_parents(cwd), Holds)
  IN IF Len(hits) = 0 THEN None ELSE hits[1]

\* GitHook._find_project_root: the nearest ancestor of cwd that holds both
\* the module's file and githooklib
_find_project_root(module_name) ==
  LET parts == split(module_name, ".")
      module_file_path == SubSeq(parts, 1, Len(parts) - 1)
                            \o << with_suffix(parts[Len(parts)], ".py") >>
      Holds(q) == exists(q \o module_file_path) /\ exists(q \o <<"githooklib">>)
      hits == SelectSeq(self_and_parents(cwd), Holds)
  IN IF Len(hits) = 0 THEN None ELSE hits[1]

\* _validate_installation_prerequisites without the look at the hooks
\* directory
_validate_installation_prerequisites_git_only ==
  LET git_root == _find_git_root
      hooks_dir == git_root \o <<".git", "hooks">>
  IN IF git_root = None
     THEN [hooks_dir |-> None, log |-> "Not a git repository"]
     ELSE [hooks_dir |-> hooks_dir, log |-> ""]

\* GitHook._validate_installation_prerequisites: the hooks directory, or
\* None and the error logged
_validate_installation_prerequisites ==
  LET git_root == _find_git_root
      hooks_dir == git_root \o <<".git", "hooks">>
  IN IF git_root = None
     THEN [hooks_dir |-> None, log |-> "Not a git repository"]
     ELSE IF ~exists(hooks_dir)
     THEN [hooks_dir |-> None,
           log |-> "Hooks directory not found: " \o str(hooks_dir)]
     ELSE [hooks_dir |-> hooks_dir, log |-> ""]

\* _write_hook_script without the call of _make_script_executable
_write_hook_script_no_chmod(hook_script_path, script_content, hook_name, fault) ==
  LET file_name == hook_script_path[Len(hook_script_path)]
      written == [content   |-> script_content,
                  mode      |-> IF file_name \in DOMAIN slot
                                THEN slot[file_name].mode ELSE CreateMode,
                  installer |-> TRUE]
  IN IF fault # "none"
     THEN [raised |-> "", value |-> FALSE, slot |-> slot,
           level |-> "ERROR", log |-> "Failed to install hook",
           stage |-> "write"]
     ELSE [raised |-> "", value |-> TRUE,
           slot |-> (file_name :> written) @@ slot,
           level |-> "INFO",
           log |-> "Installed hook: " \o hook_name, stage |-> "write"]

\* _write_hook_script without its try statement: the OSError of write_text
\* or chmod propagates
_write_hook_script_unguarded(hook_script_path, script_content, hook_name, fault) ==
  LET file_name == hook_script_path[Len(hook_script_path)]
      written == [content   |-> script_content,
                  mode      |-> IF file_name \in DOMAIN slot
                                THEN slot[file_name].mode ELSE CreateMode,
                  installer |-> TRUE]
  IN IF fault = "write"
     THEN [raised |-> "OSError", value |-> FALSE, slot |-> slot,
           level |-> "ERROR", log |-> "",
           stage |-> "write"]
     ELSE IF fault = "chmod"
     THEN [raised |-> "OSError", value |-> FALSE,
           slot |-> (file_name :> written) @@ slot,
           level |-> "ERROR", log |-> "",
           stage |-> "write"]
     ELSE [raised |-> "", value |-> TRUE,
           slot |-> (file_name :> [written EXCEPT !.mode = ExecutableMode])
                      @@ slot,
           level |-> "INFO",
           log |-> "Installed hook: " \o hook_name, stage |-> "write"]

\* GitHook._write_hook_script: write_text then chmod(0o755); fault is the
\* call that raises OSError, if any
_write_hook_script(hook_script_path, script_content, hook_name, fault) ==
  LET file_name == hook_script_path[Len(hook_script_path)]
      written == [content   |-> script_content,
                  mode      |-> IF file_name \in DOMAIN slot
                                THEN slot[file_name].mode ELSE CreateMode,
                  installer |-> TRUE]
  IN IF fault = "write"
     THEN [raised |-> "", value |-> FALSE, slot |-> slot,
           level |-> "ERROR", log |-> "Failed to install hook",
           stage |-> "write"]
     ELSE IF fault = "chmod"
     THEN [raised |-> "", value |-> FALSE,
           slot |-> (file_name :> written) @@ slot,
           level |-> "ERROR",
           log |-> "Failed to install hook", stage |-> "write"]
     ELSE [raised |-> "", value |-> TRUE,
           slot |-> (file_name :> [written EXCEPT !.mode = ExecutableMode])
                      @@ slot,
           level |-> "INFO",
           log |-> "Installed hook: " \o hook_name, stage |-> "write"]

\* install with a check that leaves an existing file alone
install_if_absent(hook_class, fault) ==
  LET pre == _validate_installation_prerequisites
      hook_script_path == pre.hooks_dir \o << hook_class.hook_name >>
  IN IF pre.hooks_dir = None
     THEN [raised |-> "", value |-> FALSE, slot |-> slot,
           level |-> "ERROR", log |-> pre.log,
           stage |-> "prerequisites"]
     ELSE IF _find_project_root(hook_class.module) = None
     THEN [raised |-> "", value |-> FALSE, slot |-> slot,
           level |-> "ERROR", log |-> "", stage |-> "project root"]
     ELSE IF exists(hook_script_path)
     THEN [raised |-> "", value |-> FALSE, slot |-> slot,
           level |-> "ERROR", log |-> "Hook already installed",
           stage |-> "write"]
     ELSE _write_hook_script(hook_script_path,
            _generate_delegator_script(hook_class.module, hook_class.name),
            hook_class.hook_name, fault)

\* GitHook.install of an instance of class hook_class
install(hook_class, fault) ==
  LET pre == _validate_installation_prerequisites
      module_name == hook_class.module
      class_name == hook_class.name
      hook_script_path == pre.hooks_dir \o << hook_class.hook_name >>
      script_content == _generate_delegator_script(module_name, class_name)
  IN IF pre.hooks_dir = None
     THEN [raised |-> "", value |-> FALSE, slot |-> slot,
           level |-> "ERROR", log |-> pre.log,
           stage |-> "prerequisites"]
     ELSE IF _find_project_root(module_name) = None
     THEN [raised |-> "", value |-> FALSE, slot |-> slot,
           level |-> "ERROR",
           log |-> "Could not find project root containing " \o module_name,
           stage |-> "project root"]
     ELSE _write_hook_script(hook_script_path, script_content,
                             hook_class.hook_name, fault)

\* uninstall that reports success without unlinking the file
uninstall_kept(hook_class, fault) ==
  LET git_root == _find_git_root
      hook_script_path == git_root \o <<".git", "hooks", hook_class.hook_name>>
  IN IF git_root = None
     THEN [value |-> FALSE, slot |-> slot,
           level |-> "ERROR", log |-> "Not a git repository",
           stage |-> "git root"]
     ELSE IF ~exists(hook_script_path)
     THEN [value |-> FALSE, slot |-> slot,
           level |-> "WARNING", log |-> "", stage |-> "exists"]
     ELSE [value |-> fault = "none", slot |-> slot,
           level |-> IF fault = "none" THEN "INFO" ELSE "ERROR", log |-> "",
           stage |-> "unlink"]

\* uninstall that takes a missing script for an uninstalled hook and succeeds
uninstall_missing_ok(hook_class, fault) ==
  LET git_root == _find_git_root
      hook_script_path == git_root \o <<".git", "hooks", hook_class.hook_name>>
  IN IF git_root = None
     THEN [value |-> FALSE, slot |-> slot,
           level |-> "ERROR", log |-> "Not a git repository",
           stage |-> "git root"]
     ELSE IF fault = "unlink"
     THEN [value |-> FALSE, slot |-> slot,
           level |-> "ERROR", log |-> "Failed to uninstall hook",
           stage |-> "unlink"]
     ELSE [value |-> TRUE,
           slot |-> [n \in DOMAIN slot \ { hook_class.hook_name } |-> slot[n]],
           level |-> "INFO",
           log |-> "Uninstalled hook: " \o hook_class.hook_name,
           stage |-> IF exists(hook_script_path) THEN "unlink" ELSE "exists"]

\* uninstall emptying the hooks directory
uninstall_clearing(hook_class, fault) ==
  LET git_root == _find_git_root
      hook_script_path == git_root \o <<".git", "hooks", hook_class.hook_name>>
  IN IF git_root = None
     THEN [value |-> FALSE, slot |-> slot,
           level |-> "ERROR", log |-> "Not a git repository",
           stage |-> "git root"]
     ELSE IF ~exists(hook_script_path)
     THEN [value |-> FALSE, slot |-> slot,
           level |-> "WARNING",
           log |-> "Hook script not found: " \o str(hook_script_path),
           stage |-> "exists"]
     ELSE IF fault = "unlink"
     THEN [value |-> FALSE, slot |-> slot,
           level |-> "ERROR", log |-> "Failed to uninstall hook",
           stage |-> "unlink"]
     ELSE [value |-> TRUE, slot |-> EmptyMap,
           level |-> "INFO",
           log |-> "Uninstalled hook: " \o hook_class.hook_name,
           stage |-> "unlink"]

\* GitHook.uninstall of an instance of class hook_class
uninstall(hook_class, fault) ==
  LET git_root == _find_git_root
      hook_script_path == git_root \o <<".git", "hooks", hook_class.hook_name>>
  IN IF git_root = None
     THEN [value |-> FALSE, slot |-> slot,
           level |-> "ERROR", log |-> "Not a git repository",
           stage |-> "git root"]
     ELSE IF ~exists(hook_script_path)
     THEN [value |-> FALSE, slot |-> slot,
           level |-> "WARNING",
           log |-> "Hook script not found: " \o str(hook_script_path),
           stage |-> "exists"]
     ELSE IF fault = "unlink"
     THEN [value |-> FALSE, slot |-> slot,
           level |-> "ERROR", log |-> "Failed to uninstall hook",
           stage |-> "unlink"]
     ELSE [value |-> TRUE,
           slot |-> [n \in DOMAIN slot \ { hook_class.hook_name } |-> slot[n]],
           level |-> "INFO",
           log |-> "Uninstalled hook: " \o hook_class.hook_name,
           stage |-> "unlink"]

(***************************************************************************)
(* The classifier of installed scripts                                     *)
(***************************************************************************)
\* GitRepositoryGateway._is_hook_from_githooklib (HookAPI and HookCLI
\* ._is_tool_installed_hook are the same code): both markers occur in the text
_is_hook_from_githooklib(content) ==
  /\ \E i \in DOMAIN content : contains(content[i], "githooklib")
  /\ \E i \in DOMAIN content : contains(content[i], "find_project_root")

\* the classification of the texts the modelled world holds, computed once
Classified ==
  [content \in { Formatted[k] : k \in KnownClasses } \cup { ExternalScript } |->
     _is_hook_from_githooklib(content)]

\* a text that is not valid UTF-8, though the bytes of both markers occur
\* in it
UndecodableText == << "\\xff\\xfe githooklib find_project_root" >>

\* Path.read_text of the file hook_name of the hooks directory: the
\* exception raised ("" when none) and the text read
read_text(hook_name) ==
  IF gitDir # "full" \/ hook_name \notin DOMAIN slot
  THEN [raised |-> "FileNotFoundError", content |-> <<>>]
  ELSE IF S_ISDIR(slot[hook_name].mode)
  THEN [raised |-> "IsADirectoryError", content |-> <<>>]
  ELSE IF ~S_IRUSR(slot[hook_name].mode)
  THEN [raised |-> "PermissionError", content |-> <<>>]
  ELSE IF slot[hook_name].content = UndecodableText
  THEN [raised |-> "UnicodeDecodeError", content |-> <<>>]
  ELSE [raised |-> "", content |-> slot[hook_name].content]

\* the exceptions `except (OSError, IOError, UnicodeDecodeError)` catches
IsOSErrorOrDecodeError(e) ==
  e \in { "FileNotFoundError", "IsADirectoryError", "PermissionError",
          "UnicodeDecodeError" }

\* the classification of a file by its bytes, whether or not it can be read
_is_tool_installed_hook_unread(hook_name) ==
  hook_name \in DOMAIN slot
    /\ _is_hook_from_githooklib(slot[hook_name].content)

\* _is_hook_from_githooklib / _is_tool_installed_hook on the path of file
\* hook_name of the hooks directory: the try statement around the read
_is_tool_installed_hook(hook_name) ==
  LET r == read_text(hook_name)
  IN IF IsOSErrorOrDecodeError(r.raised) THEN FALSE
     ELSE IF r.content \in DOMAIN Classified THEN Classified[r.content]
     ELSE _is_hook_from_githooklib(r.content)

\* GitRepositoryGateway.get_installed_hooks(hooks_dir) on the hooks directory
get_installed_hooks ==
  [hook_name \in { n \in DOMAIN slot : /\ is_file(HooksDir \o <<n>>)
                                       /\ ~endswith(n, ".sample") } |->
     _is_tool_installed_hook(hook_name)]

(***************************************************************************)
(* constants.py: what the installed delegator script does when executed.  *)
(* The script is a process of its own: it sees its text, the directory it *)
(* is started in and the filesystem, nothing of the process that wrote it.*)
(***************************************************************************)
\* the answer of `git rev-parse --show-toplevel` run in directory dir: the
\* top of the enclosing work tree, None when git exits non-zero
git_rev_parse_show_toplevel(dir) ==
  LET Holds(q) == is_dir(q \o <<".git">>)
      hits == SelectSeq(self_and_parents(dir), Holds)
  IN IF Len(hits) = 0 THEN None ELSE hits[1]

\* the template's find_git_root_via_command; git is "ok", "absent"
\* (FileNotFoundError), "fails" (CalledProcessError) or "elsewhere" (a
\* directory without .git is printed)
delegator_find_git_root_via_command(dir, git) ==
  LET top == git_rev_parse_show_toplevel(dir)
      git_root == IF git = "elsewhere" THEN OutsideDir ELSE top
  IN IF git \in { "absent", "fails" } \/ git_root = None THEN None
     ELSE IF exists(git_root \o <<".git">>) THEN git_root
     ELSE None

\* the template's find_project_root
delegator_find_project_root(dir, git) ==
  LET git_root == delegator_find_git_root_via_command(dir, git)
  IN IF git_root = None THEN None ELSE parent(git_root)

\* the words of the statement `from <module> import <class>` in main()
delegator_import_statement(content) ==
  LET IsImport(line) == Len(line) >= 9 /\ SubSeq(line, 1, 9) = "    from "
      lines == SelectSeq(content, IsImport)
  IN split(SubSeq(lines[1], 5, Len(lines[1])), " ")

\* the template's main() run on the script text content in directory dir;
\* success is what the hook's execute() reports
delegator_main(content, dir, git, success) ==
  LET statement == delegator_import_statement(content)
      module_name == statement[2]
      class_name == statement[4]
      found_root == delegator_find_project_root(dir, git)
      st == __import__(module_name,
              [sys_path |-> << found_root, HooksDir >>,
               sys_modules |-> EmptyMap, registry |-> <<>>, raised |-> ""])
      Wanted(c) == c.name = class_name
      classes == SelectSeq(st.registry, Wanted)
  IN IF found_root = None
     THEN [outcome |-> "no project root", project_root |-> None,
           ran |-> <<>>, exit_code |-> 1]
     ELSE IF st.raised # "" \/ Len(classes) = 0
     THEN [outcome |-> "import failed", project_root |-> found_root,
           ran |-> <<>>, exit_code |-> 1]
     ELSE [outcome |-> "ran", project_root |-> found_root,
           ran |-> << classes[1] >>,
           exit_code |-> HookResult(success, "", 0).exit_code]

(***************************************************************************)
(* Initial states                                                          *)
(***************************************************************************)
NoInstall == [name |-> "", files |-> {}]
NoMemo == [cached |-> FALSE, map |-> EmptyMap]
NoHookResult == [constructed |-> FALSE]

\* sys.path of a fresh interpreter, as far as hook modules are concerned
InitialSysPath == << <<"/", "usr", "lib", "python3">> >>

ExternalFile == [content |-> ExternalScript, mode |-> ExecutableMode,
                 installer |-> FALSE]

\* a sample template as `git init` leaves it in the hooks directory
SampleFile == [content |-> << "#!/bin/sh", "# An example hook script" >>,
               mode |-> ExecutableMode, installer |-> FALSE]

\* the hooks directory at the start: empty, holding a hand-authored
\* pre-commit script, or holding that script and a sample template
InitialSlots ==
  { EmptyMap, [n \in { "pre-commit" } |-> ExternalFile],
    [n \in { "pre-commit", "pre-commit.sample" } |->
       IF n = "pre-commit" THEN ExternalFile ELSE SampleFile] }

\* the hook name each source file declares, "absent" for a file that is not
\* there and "broken" for one that fails to load
Sources(pre_commit, pre_push, example, legacy) ==
  [f \in SourceFiles |->
     IF f = PreCommitFile THEN pre_commit
     ELSE IF f = PrePushFile THEN pre_push
     ELSE IF f = ExampleFile THEN example
     ELSE legacy]

\* the project the tests set up: githooks/pre_commit.py and pre_push.py
DefaultWorld == Sources("pre-commit", "pre-push", "absent", "absent")

\* a project with githooklib/examples/pre_commit_black.py beside its own hooks
ExampleWorld == Sources("pre-commit", "pre-push", "pre-commit", "absent")

\* a project with a legacy_hook.py at its top
LegacyWorld == Sources("pre-commit", "absent", "absent", "pre-push")

\* the projects install and uninstall are followed in, each
\* [gitDir, libDir, sources]: the default project, complete, without .git,
\* without .git/hooks and without the githooklib directory
Worlds ==
  { [gitDir |-> g, libDir |-> TRUE, sources |-> DefaultWorld] :
      g \in { "full", "none", "nohooks" } }
  \cup { [gitDir |-> "full", libDir |-> FALSE, sources |-> DefaultWorld] }

\* the projects discovery is followed in: one hook file, two files declaring
\* one name, a file that fails to load, a legacy file, the examples, and the
\* default project without the githooklib directory
DiscoveryWorlds ==
  { [gitDir |-> "full", libDir |-> TRUE, sources |-> w] :
      w \in { Sources("pre-commit", "absent", "absent", "absent"),
              Sources("pre-commit", "pre-commit", "absent", "absent"),
              Sources("pre-commit", "broken", "absent", "absent"),
              LegacyWorld, ExampleWorld } }
  \cup { [gitDir |-> "full", libDir |-> FALSE, sources |-> DefaultWorld] }

\* HookAPI.__init__ in a fresh interpreter started in dir
StartProcess(dir) ==
  /\ cwd' = dir
  /\ registry' = <<>>
  /\ sys_modules' = EmptyMap
  /\ sys_path' = InitialSysPath
  /\ hook_search_paths' = DefaultSearchPaths
  /\ _hooks' = NoMemo

\* the state of a process just started in the project directory
Started ==
  /\ cwd = repo
  /\ registry = <<>>
  /\ sys_modules = EmptyMap
  /\ sys_path = InitialSysPath
  /\ project_root = HookAPI_find_project_root(cwd)
  /\ hook_search_paths = DefaultSearchPaths
  /\ _hooks = NoMemo
  /\ result = [op |-> "start"]
  /\ lastInstall = NoInstall
  /\ hook_result = NoHookResult
  /\ renders = EmptyMap

\* the project is one of worlds, a process has just started in it
InitIn(worlds) ==
  /\ repo = <<"/", "w", "proj">>
  /\ \E w \in worlds :
       /\ gitDir = w.gitDir
       /\ libDir = w.libDir
       /\ sources = w.sources
  /\ slot \in InitialSlots
  /\ gitDir # "full" => slot = EmptyMap
  /\ Started

Init == InitIn(Worlds)

(***************************************************************************)
(* Operations of HookAPI                                                   *)
(***************************************************************************)
\* the interpreter state and memo a discover_hooks call leaves
Discovered(d) ==
  /\ registry' = d.st.registry
  /\ sys_modules' = d.st.sys_modules
  /\ sys_path' = d.st.sys_path
  /\ _hooks' = d.memo

\* the step of a call that got d from discover_hooks
Discovering(d) ==
  /\ Discovered(d)
  /\ result' = [op |-> "discover", raised |-> d.raised, map |-> d.map,
                error_lines |-> d.error_lines, loaded |-> d.loaded,
                memoized |-> _hooks.cached, before |-> registry]
  /\ UNCHANGED << worldVars, slot, cwd, project_root, hook_search_paths,
                  lastInstall, hook_result, renders >>

\* HookAPI.discover_hooks / list_hooks
Discover == \E o \in Listings : Discovering(discover_hooks(o))

\* the file at hook_name in the hooks directory, if any
FileAt(hook_name) ==
  IF hook_name \in DOMAIN slot THEN << slot[hook_name] >> ELSE <<>>

\* HookAPI.install_hook on the outcome d of its discover_hooks call: the
\* hook is looked up in the map and installed; found is FALSE where the
\* name is not in the map or discover_hooks raised
install_hook(d, hook_name, fault) ==
  IF d.raised = "" /\ hook_name \in DOMAIN d.map
  THEN [found |-> TRUE, class |-> << d.map[hook_name] >>,
        out |-> install(d.map[hook_name], fault)]
  ELSE [found |-> FALSE, class |-> <<>>,
        out |-> [raised |-> d.raised, value |-> FALSE, slot |-> slot,
                 level |-> "", log |-> "", stage |-> "discover"]]

\* HookAPI.uninstall_hook on the outcome d of its discover_hooks call
uninstall_hook(d, hook_name, fault) ==
  IF d.raised = "" /\ hook_name \in DOMAIN d.map
  THEN [found |-> TRUE, class |-> << d.map[hook_name] >>,
        out |-> uninstall(d.map[hook_name], fault)]
  ELSE [found |-> FALSE, class |-> <<>>,
        out |-> [value |-> FALSE, slot |-> slot, level |-> "", log |-> "",
                 stage |-> "discover"]]

\* the step of an install_hook call with outcome r
Installing(d, hook_name, fault, r) ==
  /\ fault # "none" => r.out.stage = "write"
  /\ Discovered(d)
  /\ slot' = r.out.slot
  /\ result' = [op |-> "install", name |-> hook_name, raised |-> r.out.raised,
                value |-> r.out.value, ok |-> r.found /\ r.out.value,
                log |-> r.out.log, stage |-> r.out.stage, fault |-> fault,
                memoized |-> _hooks.cached,
                class |-> r.class, prior |-> FileAt(hook_name)]
  /\ lastInstall' = IF r.found /\ r.out.value
                    THEN [name |-> hook_name, files |-> DOMAIN slot]
                    ELSE IF r.out.slot = slot THEN lastInstall
                    ELSE NoInstall
  /\ UNCHANGED << worldVars, cwd, project_root, hook_search_paths,
                  hook_result, renders >>

InstallAfter(d) ==
  \E hook_name \in HookNames, fault \in { "none", "write", "chmod" } :
    Installing(d, hook_name, fault, install_hook(d, hook_name, fault))

\* HookAPI.install_hook
Install == \E o \in Listings : InstallAfter(discover_hooks(o))

\* the call before this one was a successful uninstall_hook(hook_name)
JustUninstalled(hook_name) ==
  result.op = "uninstall" /\ result.name = hook_name /\ result.ok

\* the step of an uninstall_hook call with outcome r
Uninstalling(d, hook_name, fault, r) ==
  /\ fault # "none" => r.out.stage = "unlink"
  /\ Discovered(d)
  /\ slot' = r.out.slot
  /\ result' = [op |-> "uninstall", name |-> hook_name, raised |-> d.raised,
                value |-> r.out.value, ok |-> r.found /\ r.out.value,
                log |-> r.out.log, stage |-> r.out.stage, fault |-> fault,
                class |-> r.class, prior |-> FileAt(hook_name),
                previous |-> lastInstall, again |-> JustUninstalled(hook_name)]
  /\ lastInstall' = IF r.out.slot = slot THEN lastInstall ELSE NoInstall
  /\ UNCHANGED << worldVars, cwd, project_root, hook_search_paths,
                  hook_result, renders >>

UninstallAfter(d) ==
  \E hook_name \in HookNames, fault \in { "none", "unlink" } :
    Uninstalling(d, hook_name, fault, uninstall_hook(d, hook_name, fault))

\* HookAPI.uninstall_hook
Uninstall == \E o \in Listings : UninstallAfter(discover_hooks(o))

\* set_hook_paths without the reset of the memo
set_hook_paths_memo_kept ==
  \E hook_paths \in SearchPathOptions :
    /\ hook_search_paths' = hook_paths
    /\ result' = [op |-> "set_hook_paths"]
    /\ UNCHANGED << worldVars, slot, cwd, registry, sys_modules, sys_path,
                    project_root, _hooks, lastInstall, hook_result, renders >>

\* HookAPI.set_hook_paths (HookCLI.run makes the same two assignments for
\* --hook-paths)
set_hook_paths ==
  \E hook_paths \in SearchPathOptions :
    /\ hook_search_paths' = hook_paths
    /\ _hooks' = NoMemo
    /\ result' = [op |-> "set_hook_paths"]
    /\ UNCHANGED << worldVars, slot, cwd, registry, sys_modules, sys_path,
                    project_root, lastInstall, hook_result, renders >>

\* HookAPI.get_installed_hooks: the hooks directory is classified when the
\* git root and the directory are found
HookAPI_get_installed_hooks ==
  LET git_root == _find_git_root
      hooks_dir == git_root \o <<".git", "hooks">>
  IN IF git_root = None \/ ~exists(hooks_dir) THEN EmptyMap
     ELSE get_installed_hooks

\* HookAPI.get_installed_hooks is called
Show ==
  /\ result' = [op |-> "show", map |-> HookAPI_get_installed_hooks]
  /\ UNCHANGED << worldVars, slot, processVars, lastInstall, hook_result,
                  renders >>

\* a class statement outside the hook source files subclasses GitHook
RegisterSubclass ==
  \E cls \in ExtraClasses :
    /\ cls \notin Range(registry)
    /\ registry' = __init_subclass__(registry, cls)
    /\ result' = [op |-> "register"]
    /\ UNCHANGED << worldVars, slot, cwd, sys_modules, sys_path, project_root,
                    hook_search_paths, _hooks, lastInstall, hook_result,
                    renders >>

\* a new interpreter is started in directory dir and constructs the service
NewProcess ==
  \E dir \in Cwds(repo) :
    /\ StartProcess(dir)
    /\ project_root' = HookAPI_find_project_root(dir)
    /\ result' = [op |-> "start"]
    /\ UNCHANGED << worldVars, slot, lastInstall, hook_result, renders >>

Next ==
  \/ Discover
  \/ Install
  \/ Uninstall
  \/ set_hook_paths
  \/ Show
  \/ RegisterSubclass
  \/ NewProcess

Spec == Init /\ [][Next]_vars

InitDiscovery == InitIn(DiscoveryWorlds) /\ slot = EmptyMap

SpecDiscovery == InitDiscovery /\ [][Next]_vars

(***************************************************************************)
(* The installed delegator at work: hooks are installed, the project      *)
(* directory is renamed, and git runs the installed scripts.               *)
(***************************************************************************)
\* dir with the project directory moved from `from` to `to`
Rebase(dir, from, to) ==
  IF dir # None /\ is_relative_to(dir, from) THEN to \o relative_to(dir, from)
  ELSE dir

\* the project directory is renamed, its content kept; the running
\* interpreter ends and a new one is started at the same place in the project
MoveRepo ==
  \E to \in Repos \ { repo }, dir \in Cwds(repo) :
    /\ repo' = to
    /\ StartProcess(Rebase(dir, repo, to))
    /\ project_root' = Rebase(HookAPI_find_project_root(dir), repo, to)
    /\ result' = [op |-> "move"]
    /\ UNCHANGED << gitDir, libDir, sources, slot, lastInstall, hook_result,
                    renders >>

\* git (or a user) executes the installed script hook_name in directory dir
\* of the project
RunDelegator ==
  \E hook_name \in DOMAIN slot, dir \in { repo, repo \o SubDir },
     git \in { "ok", "absent" }, success \in BOOLEAN :
    /\ gitDir = "full"
    /\ slot[hook_name].installer
    /\ git = "absent" => success
    /\ result' = [op |-> "hook", name |-> hook_name, dir |-> dir, git |-> git,
                  statement |->
                     delegator_import_statement(slot[hook_name].content),
                  run |-> delegator_main(slot[hook_name].content, dir, git,
                                         success)]
    /\ UNCHANGED << worldVars, slot, processVars, lastInstall, hook_result,
                    renders >>

InitDelegator == Init /\ gitDir = "full" /\ libDir

NextDelegator ==
  \/ Install
  \/ MoveRepo
  \/ RunDelegator

SpecDelegator == InitDelegator /\ [][NextDelegator]_vars

(***************************************************************************)
(* Rendering: processes in different places render delegator scripts.     *)
(* renders is the log of the renders made for one (module, class) pair:   *)
(* the first and the latest, each with the place it was made in.          *)
(***************************************************************************)
\* a render of the script of hook_class made by the running process
Render(hook_class) ==
  [text |-> _generate_delegator_script(hook_class.module, hook_class.name),
   cwd |-> cwd, project_root |-> project_root, repo |-> repo]

\* the log with render r of the pair appended
Logged(pair, r) ==
  IF renders # EmptyMap /\ renders.pair = pair
  THEN [renders EXCEPT !.last = r]
  ELSE [pair |-> pair, first |-> r, last |-> r]

\* GitHook._generate_delegator_script is called on an instance of a
\* registered class
Generate ==
  \E i \in DOMAIN registry :
    /\ renders' = Logged(<< registry[i].module, registry[i].name >>,
                         Render(registry[i]))
    /\ result' = [op |-> "generate"]
    /\ UNCHANGED << worldVars, slot, processVars, lastInstall, hook_result >>

InitRender ==
  /\ InitIn(Worlds \cup DiscoveryWorlds)
  /\ gitDir = "full" /\ libDir /\ slot = EmptyMap
  /\ sources \in { DefaultWorld, LegacyWorld }

NextRender ==
  \/ Discover
  \/ Generate
  \/ NewProcess
  \/ MoveRepo

SpecRender == InitRender /\ [][NextRender]_vars

(***************************************************************************)
(* HookResult construction                                                 *)
(***************************************************************************)
\* HookResult(success=..., message="", exit_code=...) is constructed
Construct ==
  \E success \in BOOLEAN, exit_code \in (0 - MaxExit)..MaxExit :
    /\ hook_result' = [constructed |-> TRUE, success |-> success,
                       exit_code |-> exit_code,
                       value |-> HookResult(success, "", exit_code)]
    /\ result' = [op |-> "construct"]
    /\ UNCHANGED << worldVars, slot, processVars, lastInstall, renders >>

InitHookResult ==
  /\ Init
  /\ gitDir = "full" /\ libDir /\ slot = EmptyMap /\ sources = DefaultWorld

NextHookResult == Construct

SpecHookResult == InitHookResult /\ [][NextHookResult]_vars

(***************************************************************************)
(* GitHook.run: the hook is executed in-process.  execute() returns the    *)
(* HookResult constructed last, returns None, or raises.                   *)
(***************************************************************************)
\* the exception classes from_stdin and execute may raise
Raisable ==
  { "ValueError", "UnicodeDecodeError", "KeyboardInterrupt", "SystemExit" }

\* issubclass(e, Exception): KeyboardInterrupt, SystemExit and GeneratorExit
\* derive from BaseException only
IsException(e) == e \notin { "KeyboardInterrupt", "SystemExit", "GeneratorExit" }

\* GitHookContext.from_stdin: the context, unless reading stdin or looking
\* for the project root raised
from_stdin(hook_name, raised) ==
  [raised |-> raised, context |-> IF raised = "" THEN << hook_name >> ELSE <<>>]

\* execute(context) of the hook: it raises, or returns `returned`, a
\* one-element sequence holding a HookResult, or <<>> for None
execute(raised, returned) ==
  [raised |-> raised, value |-> IF raised = "" THEN returned ELSE <<>>]

\* what the body of run's try statement raises ("" when it completes)
\* and the value it returns; result.exit_code of None raises AttributeError
run_try(context, executed) ==
  IF context.raised # "" THEN [raised |-> context.raised, value |-> <<>>]
  ELSE IF executed.raised # "" THEN [raised |-> executed.raised, value |-> <<>>]
  ELSE IF executed.value = <<>> THEN [raised |-> "AttributeError", value |-> <<>>]
  ELSE [raised |-> "", value |-> << executed.value[1].exit_code >>]

\* GitHook._handle_error: two lines are logged at error level
_handle_error(error) ==
  << "Unexpected error in hook: " \o error, "Traceback (most recent call last):" >>

\* run without the try statement: whatever is raised propagates
run_unguarded(context, executed) ==
  LET body == run_try(context, executed)
  IN [raised |-> body.raised, value |-> body.value, log |-> <<>>]

\* GitHook.run: `except Exception` catches what derives from Exception
run(context, executed) ==
  LET body == run_try(context, executed)
  IN IF body.raised = ""
     THEN [raised |-> "", value |-> body.value, log |-> <<>>]
     ELSE IF IsException(body.raised)
     THEN [raised |-> "", value |-> << EXIT_FAILURE >>,
           log |-> _handle_error(body.raised)]
     ELSE [raised |-> body.raised, value |-> <<>>, log |-> <<>>]

\* the hook's execute did not run
NotExecuted == [raised |-> "", value |-> <<>>, called |-> FALSE]

\* run() is called on an instance of a hook class
RunHook ==
  \E hook_name \in HookNames, ctx \in { "" } \cup Raisable,
     exc \in { "" } \cup Raisable, returns \in { "HookResult", "None" } :
    /\ ctx \in { "", "UnicodeDecodeError", "KeyboardInterrupt" }
    /\ ctx # "" => exc = "" /\ returns = "None"
    /\ exc # "" => returns = "None"
    /\ returns = "HookResult" => hook_result.constructed
    /\ LET context == from_stdin(hook_name, ctx)
           executed == execute(exc, IF returns = "HookResult"
                                    THEN << hook_result.value >> ELSE <<>>)
       IN result' = [op |-> "run", name |-> hook_name, context |-> context,
                     executed |-> IF ctx = "" THEN
                                    [raised |-> executed.raised,
                                     value |-> executed.value, called |-> TRUE]
                                  ELSE NotExecuted,
                     out |-> run(context, executed)]
    /\ UNCHANGED << worldVars, slot, processVars, lastInstall, hook_result,
                    renders >>

NextRun ==
  \/ Construct
  \/ RunHook

SpecRun == InitHookResult /\ [][NextRun]_vars

(***************************************************************************)
(* cli.py: HookCLI.  Its discovery, install, uninstall and classifier are  *)
(* the code of HookAPI over again; the command methods differ in what they *)
(* catch and print.  A command's outcome is what it returned (a one-element *)
(* sequence, <<>> for None), what it raised and what it printed.  With     *)
(* --hook-paths, HookCLI.run makes the assignments of set_hook_paths       *)
(* before the command.                                                     *)
(***************************************************************************)
\* StreamRouter._is_error_level: records from ERROR up go to stderr
_is_error_level(level) == level \in { "ERROR", "CRITICAL" }

\* nothing printed
Silent == [stdout |-> <<>>, stderr |-> <<>>]

\* StreamRouter.emit of a record of the given level
emit(level, msg) ==
  IF level = "" THEN Silent
  ELSE IF _is_error_level(level) THEN [stdout |-> <<>>, stderr |-> << msg >>]
  ELSE [stdout |-> << msg >>, stderr |-> <<>>]

\* sorted(names) for the hook names of the modelled world
sorted(names) ==
  LET In(n) == n \in names
  IN SelectSeq(<< "commit-msg", "pre-commit", "pre-push" >>, In)

\* the lines print(f"Error: {e}") writes for the duplicate-hook ValueError
duplicate_error_printed(d) ==
  [stdout |-> <<>>,
   stderr |-> << "Error: " \o Head(d.error_lines) >> \o Tail(d.error_lines)]

\* HookCLI._print_hook_not_found_error: the first two lines it prints
_print_hook_not_found_error(hook_name) ==
  [stdout |-> <<>>,
   stderr |-> << "Error: Hook '" \o hook_name \o "' not found",
                 "Could not find hooks under:" >>]

\* HookCLI.list_hooks on the outcome d of its discover_hooks call
list_hooks(d) ==
  IF d.raised = "ValueError"
  THEN [raised |-> "", returned |-> <<>>, printed |-> duplicate_error_printed(d)]
  ELSE IF d.raised # ""
  THEN [raised |-> d.raised, returned |-> <<>>, printed |-> Silent]
  ELSE IF d.map = EmptyMap
  THEN [raised |-> "", returned |-> <<>>,
        printed |-> [stdout |-> << "No hooks found" >>, stderr |-> <<>>]]
  ELSE [raised |-> "", returned |-> <<>>,
        printed |-> [stdout |-> << "Available hooks:" >> \o sorted(DOMAIN d.map),
                     stderr |-> <<>>]]

\* HookCLI.show_installed_hooks
show_installed_hooks ==
  LET git_root == _find_git_root
      hooks_dir == git_root \o <<".git", "hooks">>
      installed_hooks == get_installed_hooks
  IN IF git_root = None
     THEN [raised |-> "", returned |-> <<>>,
           printed |-> [stdout |-> <<>>,
                        stderr |-> << "Not in a git repository" >>]]
     ELSE IF ~exists(hooks_dir)
     THEN [raised |-> "", returned |-> <<>>,
           printed |-> [stdout |-> << "No hooks directory found" >>,
                        stderr |-> <<>>]]
     ELSE IF installed_hooks = EmptyMap
     THEN [raised |-> "", returned |-> <<>>,
           printed |-> [stdout |-> << "No hooks installed" >>, stderr |-> <<>>]]
     ELSE [raised |-> "", returned |-> <<>>,
           printed |-> [stdout |-> << "Installed hooks:" >>
                                     \o sorted(DOMAIN installed_hooks),
                        stderr |-> <<>>]]

\* the part HookCLI.install_hook, uninstall_hook and run_hook share: the
\* ValueError of discover_hooks is caught and printed, another error
\* propagates, and a name that is not in the map is reported
lookup(d, hook_name, failure) ==
  IF d.raised = "ValueError"
  THEN [found |-> FALSE, raised |-> "", returned |-> << failure >>,
        printed |-> duplicate_error_printed(d)]
  ELSE IF d.raised # ""
  THEN [found |-> FALSE, raised |-> d.raised, returned |-> <<>>,
        printed |-> Silent]
  ELSE IF hook_name \notin DOMAIN d.map
  THEN [found |-> FALSE, raised |-> "", returned |-> << failure >>,
        printed |-> _print_hook_not_found_error(hook_name)]
  ELSE [found |-> TRUE, raised |-> "", returned |-> <<>>, printed |-> Silent]

\* HookCLI.install_hook on the outcome d of its discover_hooks call
HookCLI_install_hook(d, hook_name, fault) ==
  LET looked == lookup(d, hook_name, FALSE)
      out == install(d.map[hook_name], fault)
  IN IF ~looked.found
     THEN [raised |-> looked.raised, returned |-> looked.returned,
           printed |-> looked.printed, slot |-> slot, stage |-> "discover",
           log |-> ""]
     ELSE [raised |-> out.raised, returned |-> << out.value >>,
           printed |-> emit(out.level, out.log), slot |-> out.slot,
           stage |-> out.stage, log |-> out.log]

\* HookCLI.uninstall_hook on the outcome d of its discover_hooks call
HookCLI_uninstall_hook(d, hook_name, fault) ==
  LET looked == lookup(d, hook_name, FALSE)
      out == uninstall(d.map[hook_name], fault)
  IN IF ~looked.found
     THEN [raised |-> looked.raised, returned |-> looked.returned,
           printed |-> looked.printed, slot |-> slot, stage |-> "discover",
           log |-> ""]
     ELSE [raised |-> "", returned |-> << out.value >>,
           printed |-> emit(out.level, out.log), slot |-> out.slot,
           stage |-> out.stage, log |-> out.log]

\* HookCLI.run_hook on the outcome d of its discover_hooks call; executed is
\* what the hook's execute() does
run_hook(d, hook_name, executed) ==
  LET looked == lookup(d, hook_name, EXIT_FAILURE)
      out == run(from_stdin(hook_name, ""), executed)
  IN IF ~looked.found
     THEN [raised |-> looked.raised, returned |-> looked.returned,
           printed |-> looked.printed, slot |-> slot, stage |-> "discover",
           log |-> ""]
     ELSE [raised |-> out.raised, returned |-> out.value,
           printed |-> [stdout |-> <<>>, stderr |-> out.log], slot |-> slot,
           stage |-> "run", log |-> ""]

\* HookCLI._execute_command: the exit code for what the command's method
\* returned
_execute_command(command, returned) ==
  IF command = "list" THEN 0
  ELSE IF command = "show" THEN 0
  ELSE IF command = "run" THEN returned[1]
  ELSE IF command \in { "install", "uninstall" }
  THEN IF returned[1] THEN 0 ELSE 1
  ELSE 1

\* the step of a command: c is its method's outcome, d the outcome of its
\* discover_hooks call; an error that leaves HookCLI.run ends the
\* interpreter with exit code 1
Commanding(command, hook_name, d, c, slot_after, stage) ==
  /\ Discovered(d)
  /\ slot' = slot_after
  /\ result' = [op |-> "cli", command |-> command, name |-> hook_name,
                discover_raised |-> d.raised, stage |-> stage,
                git_root |-> _find_git_root # None,
                project_root |-> project_root # None,
                returned |-> c.returned, raised |-> c.raised,
                exit_code |-> IF c.raised # "" THEN 1
                              ELSE _execute_command(command, c.returned),
                printed |-> c.printed]
  /\ lastInstall' = IF slot_after = slot THEN lastInstall ELSE NoInstall
  /\ UNCHANGED << worldVars, cwd, project_root, hook_search_paths,
                  hook_result, renders >>

Listing(d) == Commanding("list", "", d, list_hooks(d), slot, "discover")

\* `list`
CliList == \E o \in Listings : Listing(discover_hooks(o))

\* `show`, which makes no discover_hooks call
CliShow ==
  /\ result' = [op |-> "cli", command |-> "show", name |-> "",
                discover_raised |-> "", stage |-> "show",
                git_root |-> _find_git_root # None,
                project_root |-> project_root # None,
                returned |-> show_installed_hooks.returned,
                raised |-> show_installed_hooks.raised,
                exit_code |-> _execute_command("show",
                                               show_installed_hooks.returned),
                printed |-> show_installed_hooks.printed]
  /\ UNCHANGED << worldVars, slot, processVars, lastInstall, hook_result,
                  renders >>

CliInstalling(hook_name, fault, d, c) ==
  /\ fault # "none" => c.stage = "write"
  /\ Commanding("install", hook_name, d, c, c.slot, c.stage)

CliInstallAfter(d) ==
  \E hook_name \in HookNames, fault \in { "none", "write", "chmod" } :
    CliInstalling(hook_name, fault, d, HookCLI_install_hook(d, hook_name, fault))

\* `install <hook_name>`
CliInstall == \E o \in Listings : CliInstallAfter(discover_hooks(o))

CliUninstalling(hook_name, fault, d, c) ==
  /\ fault # "none" => c.stage = "unlink"
  /\ Commanding("uninstall", hook_name, d, c, c.slot, c.stage)

CliUninstallAfter(d) ==
  \E hook_name \in HookNames, fault \in { "none", "unlink" } :
    CliUninstalling(hook_name, fault, d,
                    HookCLI_uninstall_hook(d, hook_name, fault))

\* `uninstall <hook_name>`
CliUninstall == \E o \in Listings : CliUninstallAfter(discover_hooks(o))

\* what a hook's execute() may do: return a HookResult for success or for
\* failure, or raise
Executions ==
  { execute("", << HookResult(success, "", EXIT_SUCCESS) >>) :
      success \in BOOLEAN }
  \cup { execute(e, <<>>) : e \in { "ValueError", "SystemExit" } }

CliRunAfter(d) ==
  \E hook_name \in HookNames, executed \in Executions :
    Commanding("run", hook_name, d, run_hook(d, hook_name, executed), slot,
               run_hook(d, hook_name, executed).stage)

\* `run <hook_name>`
CliRun == \E o \in Listings : CliRunAfter(discover_hooks(o))

NextCLI ==
  \/ CliList
  \/ CliShow
  \/ CliInstall
  \/ CliUninstall
  \/ CliRun
  \/ set_hook_paths
  \/ RegisterSubclass
  \/ NewProcess

SpecCLI == Init /\ [][NextCLI]_vars

(***************************************************************************)
(* The operations that depend on a root, called one at a time:             *)
(* ProjectRootGateway.find_project_root, HookAPI._import_hook_module on    *)
(* one hook file, and GitHook.install on an instance of a registered class.*)
(***************************************************************************)
\* what running `git rev-parse --show-toplevel` comes to: "absent" (no git
\* executable, FileNotFoundError), "fails" (non-zero exit,
\* CalledProcessError), "ok" (the top level of the work tree around cwd is
\* printed) or "elsewhere" (a directory without .git is printed, as under
\* GIT_WORK_TREE)
GitOutcomes == { "ok", "absent", "fails", "elsewhere" }

\* the command strategy taking git's answer without a look for .git there
gateway_find_git_root_via_command_unvalidated(git) ==
  LET top == git_rev_parse_show_toplevel(cwd)
      git_root == IF git = "elsewhere" THEN OutsideDir ELSE top
  IN IF git \in { "absent", "fails" } \/ git_root = None THEN None
     ELSE git_root \o <<".git">>

\* GitRepositoryGateway._find_git_root_via_command
gateway_find_git_root_via_command(git) ==
  LET top == git_rev_parse_show_toplevel(cwd)
      git_root == IF git = "elsewhere" THEN OutsideDir ELSE top
  IN IF git \in { "absent", "fails" } \/ git_root = None THEN None
     ELSE IF exists(git_root \o <<".git">>) THEN git_root \o <<".git">>
     ELSE None

\* GitRepositoryGateway._find_git_root_via_filesystem
_find_git_root_via_filesystem ==
  LET Holds(q) == exists(q \o <<".git">>)
      hits == SelectSeq(self_and_parents(cwd), Holds)
  IN IF Len(hits) = 0 THEN None ELSE hits[1]

\* GitRepositoryGateway.find_git_root
find_git_root(git) ==
  LET git_root == gateway_find_git_root_via_command(git)
  IN IF git_root # None THEN git_root ELSE _find_git_root_via_filesystem

\* a call of GitRepositoryGateway.find_git_root()
FindGitRoot ==
  \E git \in GitOutcomes :
    /\ result' = [op |-> "find_git_root", git |-> git, raised |-> "",
                  strategy |->
                    IF gateway_find_git_root_via_command(git) # None
                    THEN "command" ELSE "filesystem",
                  value |-> find_git_root(git)]
    /\ UNCHANGED << worldVars, slot, processVars, lastInstall,
                    hook_result, renders >>

\* ProjectRootGateway.find_project_root
ProjectRootGateway_find_project_root(git) ==
  LET g == find_git_root(git)
  IN IF g = None
     THEN [raised |-> "GitHookLibException",
           message |-> "Could not find git repository", value |-> None]
     ELSE [raised |-> "", message |-> "", value |-> parent(g)]

\* a call of ProjectRootGateway.find_project_root()
FindProjectRoot ==
  \E git \in GitOutcomes :
    LET r == ProjectRootGateway_find_project_root(git)
    IN /\ result' = [op |-> "find_project_root", git |-> git,
                     found |-> find_git_root(git) # None,
                     raised |-> r.raised, message |-> r.message,
                     value |-> r.value]
       /\ UNCHANGED << worldVars, slot, processVars, lastInstall,
                       hook_result, renders >>

\* an installed delegator script, run in the working directory, looks for
\* its roots
DelegatorFindProjectRoot ==
  \E git \in GitOutcomes :
    /\ result' = [op |-> "delegator find_project_root", git |-> git,
                  git_root |-> delegator_find_git_root_via_command(cwd, git),
                  value |-> delegator_find_project_root(cwd, git)]
    /\ UNCHANGED << worldVars, slot, processVars, lastInstall,
                    hook_result, renders >>

\* the step of a call _import_hook_module(module_path) that left st
Importing(module_path, st) ==
  /\ registry' = st.registry
  /\ sys_modules' = st.sys_modules
  /\ sys_path' = st.sys_path
  /\ result' = [op |-> "import", path |-> module_path,
                resolved |-> project_root # None,
                base_dir |-> import_base_dir, raised |-> st.raised,
                inserted |-> { d \in Range(st.sys_path) :
                                 d \notin Range(sys_path) }]
  /\ UNCHANGED << worldVars, slot, cwd, project_root, hook_search_paths,
                  _hooks, lastInstall, hook_result, renders >>

\* a call of HookAPI._import_hook_module on a hook file of the project
ImportHookModule ==
  \E f \in SourceFiles :
    /\ sources[f] # "absent"
    /\ Importing(repo \o f,
                 _import_hook_module(repo \o f,
                   [sys_path |-> sys_path, sys_modules |-> sys_modules,
                    registry |-> registry, raised |-> ""]))

\* the step of a call install() on an instance of hook_class with outcome out
HookInstalling(hook_class, fault, out) ==
  /\ fault # "none" => out.stage = "write"
  /\ slot' = out.slot
  /\ result' = [op |-> "hook install", class |-> hook_class,
                raised |-> out.raised, value |-> out.value,
                level |-> out.level, log |-> out.log, stage |-> out.stage]
  /\ lastInstall' = IF out.value
                    THEN [name |-> hook_class.hook_name, files |-> DOMAIN slot]
                    ELSE IF out.slot = slot THEN lastInstall
                    ELSE NoInstall
  /\ UNCHANGED << worldVars, processVars, hook_result, renders >>

\* a call of GitHook.install on an instance of a registered class
HookInstall ==
  \E i \in DOMAIN registry, fault \in { "none", "write", "chmod" } :
    HookInstalling(registry[i], fault, install(registry[i], fault))

NextRoot ==
  \/ FindGitRoot
  \/ FindProjectRoot
  \/ DelegatorFindProjectRoot
  \/ ImportHookModule
  \/ HookInstall
  \/ RegisterSubclass
  \/ NewProcess

SpecRoot == Init /\ [][NextRoot]_vars

\* the projects module loads are followed in: hook files in one directory
\* or in two, one of them failing to load or none, with the githooklib
\* directory or without
ImportWorlds ==
  { [gitDir |-> "full", libDir |-> l, sources |-> w] :
      l \in BOOLEAN,
      w \in { DefaultWorld, LegacyWorld,
              Sources("pre-commit", "broken", "absent", "pre-push") } }

InitImport == InitIn(ImportWorlds) /\ slot = EmptyMap

NextImport == ImportHookModule \/ Discover \/ NewProcess

SpecImport == InitImport /\ [][NextImport]_vars

(***************************************************************************)
(* Classification of a hooks directory that holds, beside scripts that can *)
(* be read, files that cannot, a directory and a sample.                   *)
(***************************************************************************)
\* the names of the entries of the hooks directory
HooksDirNames == { "pre-commit", "pre-push", "pre-commit.sample", "info" }

\* the delegator install writes for githooklib/examples/pre_commit_black.py,
\* whose text holds both markers
DelegatorFile ==
  [content |-> Formatted[<<"githooklib.examples.pre_commit_black",
                           "PreCommit">>],
   mode |-> ExecutableMode, installer |-> TRUE]

\* what an entry of the hooks directory is: a hand-authored script, an
\* installed delegator, a delegator the owner may not read, a file that is
\* not UTF-8, or a directory
HooksDirEntries ==
  { ExternalFile, DelegatorFile, [DelegatorFile EXCEPT !.mode = 0],
    [content |-> UndecodableText, mode |-> ExecutableMode,
     installer |-> FALSE],
    [content |-> <<>>, mode |-> S_IFDIR + ExecutableMode,
     installer |-> FALSE] }

\* a call of _is_hook_from_githooklib on one path in the hooks directory,
\* there or not
ClassifyPath ==
  \E hook_name \in HooksDirNames \cup { "commit-msg" } :
    /\ result' = [op |-> "classify", name |-> hook_name,
                  raised |-> "", value |-> _is_tool_installed_hook(hook_name)]
    /\ UNCHANGED << worldVars, slot, processVars, lastInstall, hook_result,
                    renders >>

InitClassify ==
  /\ repo = <<"/", "w", "proj">>
  /\ gitDir = "full" /\ libDir = TRUE /\ sources = DefaultWorld
  /\ \E names \in SUBSET HooksDirNames : slot \in [names -> HooksDirEntries]
  /\ Started

NextClassify == Show \/ ClassifyPath

SpecClassify == InitClassify /\ [][NextClassify]_vars

(***************************************************************************)
(* The claims                                                              *)
(***************************************************************************)
\* C1: a delegator script install wrote for (module M, class C), executed in
\* a directory of the repository with git at hand, finds the project
\* directory (the one M's file lives under), imports M from it and runs C
C1_DelegatorRunsInstalledClass ==
  (result.op = "hook" /\ result.git = "ok") =>
     /\ result.run.outcome = "ran"
     /\ result.run.project_root = repo
     /\ Len(result.run.ran) = 1
     /\ result.run.ran[1].module = result.statement[2]
     /\ result.run.ran[1].name = result.statement[4]

\* the text holds s somewhere in a line
Embeds(text, s) == \E i \in DOMAIN text : contains(text[i], s)

\* C2: the rendered text depends on the (module, class) pair only: renders
\* of one pair made in different working directories, project roots and
\* processes are the same text, the template with the two identifiers put
\* in, and the text holds no path the generating process worked with
C2_RenderDependsOnPairOnly ==
  renders # EmptyMap =>
    /\ renders.first.text = renders.last.text
    /\ renders.last.text = format(renders.pair[1], renders.pair[2])
    /\ \A r \in { renders.first, renders.last } :
         \A path \in { r.cwd, r.repo, r.project_root } \ { None } :
           ~Embeds(r.text, str(path))

\* one pair was rendered by two processes, in different working directories
\* of differently placed projects
C2_RenderedInTwoPlaces ==
  /\ renders # EmptyMap
  /\ renders.first.cwd # renders.last.cwd
  /\ renders.first.repo # renders.last.repo
  /\ renders.first.project_root # renders.last.project_root
  /\ renders.last.project_root # None

\* the hook source files in the directories hook_search_paths names
SearchedFiles ==
  { f \in SourceFiles :
      /\ sources[f] # "absent"
      /\ \E i \in DOMAIN hook_search_paths :
           repo \o parent(f) = cwd \o hook_search_paths[i] }

\* every file of files loads and no two declare one hook name
DistinctNames(files) ==
  \A f \in files :
    /\ sources[f] # "broken"
    /\ \A g \in files \ { f } : sources[f] # sources[g]

\* the registry reg holds only classes that the files define
OnlyFrom(reg, files) ==
  \A i \in DOMAIN reg : ModuleFile(reg[i].module) \in files

\* the *_hook.py files at the top of the project
LegacyFiles ==
  { f \in SourceFiles :
      sources[f] # "absent" /\ Len(f) = 1 /\ endswith(f[1], "_hook.py") }

Colliding(reg) ==
  { c \in Range(reg) :
      \E d \in Range(reg) : d # c /\ d.hook_name = c.hook_name }

\* the error text names class c: its class identifier with its source file
\* or its module
Names(error_lines, c) ==
  \E i \in DOMAIN error_lines :
    /\ contains(error_lines[i], c.name)
    /\ \/ contains(error_lines[i], str(ModuleFile(c.module)))
       \/ contains(error_lines[i], c.module)

\* the call ended in the duplicate-hook error, which names every colliding
\* class of the registry under every colliding name
DuplicateErrorNamesAll ==
  /\ result.raised = "ValueError"
  /\ result.error_lines[1] = "Duplicate hook implementations found:"
  /\ \A c \in Colliding(registry) :
       /\ Names(result.error_lines, c)
       /\ \E i \in DOMAIN result.error_lines :
            contains(result.error_lines[i], "Hook '" \o c.hook_name \o "'")

\* a hook source file failed to load
LoadErrors == { "SyntaxError", "ModuleNotFoundError" }

\* C4 as stated: whenever the registry holds two implementations that
\* declare one hook name, discover_hooks() fails with the duplicate-hook
\* error, which names every colliding implementation
C4_DuplicatesAlwaysReported ==
  (result.op = "discover" /\ Colliding(registry) # {}) =>
     DuplicateErrorNamesAll

\* C4 amended: the same for a call that finds no memoized map, has the
\* project root resolved and loads every hook source file
C4_DuplicatesReportedByFreshDiscovery ==
  (/\ result.op = "discover" /\ Colliding(registry) # {}
   /\ ~result.memoized
   /\ project_root # None
   /\ result.raised \notin LoadErrors) =>
     DuplicateErrorNamesAll

\* discover_hooks() raised the duplicate-hook error for three classes that
\* declare one name
C4_ThreeCollidingReported ==
  /\ result.op = "discover" /\ ~result.memoized
  /\ Cardinality(Colliding(registry)) = 3
  /\ result.raised = "ValueError"

\* C5 as stated: while two implementations in the registry share a hook
\* name, discover_hooks() returns and memoizes no map, and install of that
\* name writes nothing into the hooks directory
C5_NoMapNoWriteWhileDuplicates ==
  /\ (result.op = "discover" /\ Colliding(registry) # {}) =>
        result.raised # "" /\ (_hooks.cached => result.memoized)
  /\ (/\ result.op = "install"
      /\ \E c \in Colliding(registry) : c.hook_name = result.name) =>
        /\ result.stage # "write"
        /\ FileAt(result.name) = result.prior

\* C5 amended: the same for calls that find no memoized map and have the
\* project root resolved
C5_NoMapNoWriteFromFreshDiscovery ==
  /\ (/\ result.op = "discover" /\ Colliding(registry) # {}
      /\ ~result.memoized /\ project_root # None) =>
        result.raised # "" /\ ~_hooks.cached
  /\ (/\ result.op = "install"
      /\ \E c \in Colliding(registry) : c.hook_name = result.name
      /\ ~result.memoized /\ project_root # None) =>
        /\ result.raised # ""
        /\ ~_hooks.cached
        /\ result.stage # "write"
        /\ FileAt(result.name) = result.prior

\* install was asked for a name two classes declare, with no memoized map,
\* and ended in the duplicate-hook error
C5_InstallStoppedByDuplicates ==
  /\ result.op = "install" /\ ~result.memoized /\ project_root # None
  /\ \E c \in Colliding(registry) : c.hook_name = result.name
  /\ result.raised = "ValueError"
  /\ gitDir = "full"

\* C6: every HookResult, just after construction from any success and
\* exit_code, has exit_code 0 exactly when success is true: success keeps its
\* value, a success gets exit code 0 and a failure a non-zero exit code
C6_ExitCodeAgreesWithSuccess ==
  hook_result.constructed =>
    /\ hook_result.value.success = hook_result.success
    /\ (hook_result.value.exit_code = 0) <=> hook_result.value.success
    /\ hook_result.success => hook_result.value.exit_code = 0
    /\ ~hook_result.success => hook_result.value.exit_code # 0

\* a HookResult was constructed from success = TRUE and a non-zero exit code
C6_InconsistentPairConstructed ==
  /\ hook_result.constructed
  /\ hook_result.success /\ hook_result.exit_code = MaxExit
  /\ hook_result.value.exit_code = 0

\* C7 as stated: for every prior content of the hooks directory, a
\* successful install(name) followed by uninstall(name) leaves the set of
\* files of the directory as it was before the install
C7_InstallUninstallRestoresFiles ==
  (/\ result.op = "uninstall" /\ result.ok
   /\ result.previous.name = result.name) =>
     DOMAIN slot = result.previous.files

\* C7 amended: the same when no file named name was in the directory before
\* the install
C7_InstallUninstallRestoresFilesWithoutName ==
  (/\ result.op = "uninstall" /\ result.ok
   /\ result.previous.name = result.name
   /\ result.name \notin result.previous.files) =>
     DOMAIN slot = result.previous.files

\* a hook was installed beside another file and uninstalled again
C7_InstalledBesideAndUninstalled ==
  /\ result.op = "uninstall" /\ result.ok
  /\ result.previous.name = result.name
  /\ result.name \notin result.previous.files
  /\ result.previous.files # {}

\* mode lets owner, group and others execute the file
ExecutableByAll(mode) ==
  /\ (mode \div 64) % 2 = 1
  /\ (mode \div 8) % 2 = 1
  /\ mode % 2 = 1

\* C8: after a successful install(name) the hooks directory holds a file
\* named as the hook declares, with the delegator text of the hook's
\* (module, class) as content, executable by owner, group and others
C8_InstalledFileIsExecutableDelegator ==
  (result.op = "install" /\ result.ok) =>
     /\ result.name = result.class[1].hook_name
     /\ result.name \in DOMAIN slot
     /\ slot[result.name].content =
          format(result.class[1].module, result.class[1].name)
     /\ ExecutableByAll(slot[result.name].mode)

\* a hook was installed where no file was
C8_InstalledNewFile ==
  /\ result.op = "install" /\ result.ok
  /\ result.prior = <<>>
  /\ result.name \in DOMAIN slot

\* C9: whatever file is at the hook's place beforehand (none, a hand-authored
\* one, one the installer wrote), an install that has its prerequisites and
\* meets no I/O error succeeds and leaves the delegator text there, and an
\* install over a file the installer wrote leaves the content as it was
C9_InstallOverwritesAndIsIdempotent ==
  (result.op = "install" /\ result.stage = "write" /\ result.fault = "none") =>
     /\ result.ok
     /\ result.name \in DOMAIN slot
     /\ slot[result.name].content =
          format(result.class[1].module, result.class[1].name)
     /\ (result.prior # <<>> /\ result.prior[1].installer) =>
          slot[result.name].content = result.prior[1].content

\* a hook was installed a second time, over the file of the first install
C9_InstalledTwice ==
  /\ result.op = "install" /\ result.ok
  /\ result.prior # <<>>
  /\ result.prior[1].installer
  /\ result.prior[1].mode = ExecutableMode

\* C10: in one hooks directory, every script the installer wrote is
\* classified as tool-owned and every hand-authored script as not tool-owned
C10_InstalledScriptsAreToolOwned ==
  result.op = "show" =>
    \A n \in DOMAIN result.map :
      /\ slot[n].installer => result.map[n]
      /\ ~slot[n].installer => ~result.map[n]

\* C11: GitHook.uninstall of a name that has no file in the hooks directory
\* returns False and leaves the directory as it was; an uninstall that
\* returned True has removed the file, so that a further uninstall of the name
\* fails with the file still absent
C11_UninstallOfMissingFails ==
  [][ /\ ( /\ result'.op = "uninstall" /\ result'.class # <<>>
           /\ result'.prior = <<>> )
        => /\ ~result'.value
           /\ slot' = slot
           /\ result'.name \notin DOMAIN slot'
           /\ result'.stage \in { "git root", "exists" }
      /\ ( /\ result'.op = "uninstall" /\ result'.value )
        => /\ result'.name \notin DOMAIN slot'
           /\ slot' = [n \in DOMAIN slot \ { result'.name } |-> slot[n]] ]_vars

\* GitHook.uninstall looked, in a repository, for the script of a hook whose
\* file an uninstall before it had removed, and failed
C11_UninstalledAgain ==
  /\ result.op = "uninstall" /\ result.class # <<>>
  /\ result.prior = <<>> /\ result.stage = "exists"
  /\ ~result.value
  /\ result.log = "Hook script not found: " \o str(HooksDir \o << result.name >>)
  /\ result.again

\* C12: uninstall never removes an externally authored script: when the file
\* at the hook's place in the hooks directory was not written by the installer
\* and lacks the two markers, uninstall of that name reports failure (exit
\* code 1) and the file is still there afterwards, unchanged
C12_UninstallKeepsExternalScript ==
  ( /\ result.op = "uninstall"
    /\ result.prior # <<>>
    /\ ~result.prior[1].installer
    /\ ~_is_hook_from_githooklib(result.prior[1].content) )
  => /\ ~result.ok
     /\ FileAt(result.name) = result.prior

\* C13 as stated: GitHook.run() never lets an exception escape: when building
\* the context or execute() raises any exception, run() logs it and returns a
\* non-zero exit code; otherwise it returns the exit code of the HookResult
\* execute() returned
C13_RunNeverRaises ==
  result.op = "run" =>
    /\ result.out.raised = ""
    /\ ( result.context.raised # "" \/ result.executed.raised # "" )
         => /\ result.out.value # << 0 >>
            /\ result.out.log # <<>>
    /\ ( /\ result.context.raised = "" /\ result.executed.raised = ""
         /\ result.executed.value # <<>> )
         => result.out.value = << result.executed.value[1].exit_code >>

\* C13 amended: the same for the exceptions that derive from Exception;
\* KeyboardInterrupt and SystemExit leave run() unlogged
C13_RunCatchesExceptions ==
  result.op = "run" =>
    LET raised == IF result.context.raised # "" THEN result.context.raised
                  ELSE result.executed.raised
    IN /\ ( raised # "" /\ IsException(raised) )
            => /\ result.out.raised = ""
               /\ result.out.value # << 0 >> /\ Len(result.out.value) = 1
               /\ result.out.log # <<>>
       /\ ( raised # "" /\ ~IsException(raised) )
            => /\ result.out.raised = raised
               /\ result.out.log = <<>>
       /\ ( raised = "" /\ result.executed.value # <<>> )
            => /\ result.out.raised = ""
               /\ result.out.value = << result.executed.value[1].exit_code >>
               /\ result.out.log = <<>>

\* execute() raised ValueError and run() returned 1 with the error logged
C13_ExecuteRaisedAndRunReturned ==
  /\ result.op = "run"
  /\ result.executed.called /\ result.executed.raised = "ValueError"
  /\ result.out = [raised |-> "", value |-> << 1 >>,
                   log |-> _handle_error("ValueError")]

C15_InstallWithoutHooksDirFails ==
  [][ ( /\ result'.op = "cli" /\ result'.command = "install"
        /\ ( ~result'.git_root \/ gitDir # "full" ) )
      => /\ result'.exit_code = 1
         /\ result'.returned \in { <<>>, << FALSE >> }
         /\ slot' = slot /\ gitDir' = gitDir
         /\ ( result'.stage = "prerequisites" /\ ~result'.git_root )
              => result'.printed.stderr = << "Not a git repository" >>
         /\ ( result'.stage = "prerequisites" /\ result'.git_root )
              => result'.printed.stderr =
                   << "Hooks directory not found: " \o str(HooksDir) >>
         /\ "Not a git repository"
              # "Hooks directory not found: " \o str(HooksDir) ]_vars

\* `install <name>` was run in a repository without .git/hooks and
\* GitHook.install stopped at its prerequisites with the diagnostic printed
C15_InstallStoppedAtPrerequisites ==
  /\ result.op = "cli" /\ result.command = "install"
  /\ result.stage = "prerequisites"
  /\ gitDir = "nohooks" /\ result.git_root
  /\ result.exit_code = 1
  /\ result.printed.stderr = << "Hooks directory not found: " \o str(HooksDir) >>

\* the command whose outcome is in result reported a failure: the hook names
\* collide, list or show ran outside a git repository, the hook name is
\* unknown, install or uninstall returned False, the hook run gave a non-zero
\* code, or an error left the command
Failed(r) ==
  \/ r.discover_raised # ""
  \/ r.raised # ""
  \/ r.command \in { "list", "show" } /\ ~r.git_root
  \/ r.command \in { "install", "uninstall", "run" } /\ r.stage = "discover"
  \/ r.command \in { "install", "uninstall" } /\ r.returned = << FALSE >>
  \/ r.command = "run" /\ r.returned # << 0 >>

\* C16: every CLI command (list, show, install, uninstall, run) returns exit
\* code 0 exactly when it succeeded and a non-zero code on every reported
\* failure, and every failure prints its error to standard error
C16_ExitCodeZeroExactlyOnSuccess ==
  result.op = "cli" =>
    /\ result.exit_code = 0 <=> ~Failed(result)
    /\ Failed(result) => result.printed.stderr # <<>>

\* C17: once a discover_hooks() call of a service instance has succeeded,
\* every later call returns the memoized map, loading no module and whatever
\* the registry holds by then, until the search paths are set, which clears
\* the memo so that the next call loads and groups again; a call that raises,
\* or returns the empty map for want of a project root, sets no memo
C17_MemoUntilSearchPathsChange ==
  [][ /\ ( result'.op = "discover" /\ _hooks.cached )
           => /\ result'.raised = "" /\ result'.map = _hooks.map
              /\ ~result'.loaded
              /\ << registry, sys_modules, sys_path, _hooks >>'
                   = << registry, sys_modules, sys_path, _hooks >>
      /\ ( _hooks.cached /\ _hooks' # _hooks )
           => result'.op \in { "set_hook_paths", "start" }
      /\ result'.op = "set_hook_paths" => _hooks' = NoMemo
      /\ ( result'.op = "discover" /\ ~_hooks.cached /\ project_root # None )
           => /\ result'.loaded
              /\ result'.raised = ""
                   => _hooks' = [cached |-> TRUE, map |-> result'.map]
      /\ ( /\ result'.op \in { "discover", "install", "uninstall" }
           /\ ~_hooks.cached
           /\ result'.raised # "" \/ project_root = None )
           => _hooks' = NoMemo ]_vars

\* a discover_hooks() call returned the memoized map although the registry
\* had come to hold a class the map does not
C17_MemoReturnedDespiteNewClass ==
  /\ result.op = "discover" /\ result.memoized
  /\ result.raised = "" /\ ~result.loaded
  /\ result.map = _hooks.map
  /\ \E c \in Range(registry) : c \notin Range(result.map)

\* the candidate files a discover_hooks() call of the current state would load
Candidates == Range(_find_hook_modules(CHOOSE o \in Listings : TRUE))

\* C18: if loading a candidate hook source file raises, discover_hooks()
\* propagates that error, returns no map (none of the files loaded before the
\* failing one either) and leaves the memo unset; a call that loads the
\* candidates while one of them is broken ends this way
C18_LoadErrorPropagates ==
  [][ result'.op = "discover" =>
        /\ result'.raised \in LoadErrors
             => /\ result'.loaded /\ ~_hooks.cached
                /\ result'.map = EmptyMap
                /\ result'.error_lines = <<>>
                /\ _hooks' = NoMemo
        /\ ( /\ ~_hooks.cached /\ project_root # None
             /\ \E p \in Candidates : StatusAt(p) = "broken" )
             => result'.raised \in LoadErrors ]_vars

\* discover_hooks() raised the SyntaxError of a hook file after another file
\* had been loaded and its class registered
C18_SecondFileFailedToLoad ==
  /\ result.op = "discover" /\ result.raised = "SyntaxError"
  /\ result.before = <<>> /\ registry # <<>>
  /\ result.map = EmptyMap /\ _hooks = NoMemo

\* C19: with the service's project root unresolved, discover_hooks() returns
\* the empty map: it raises nothing, loads no candidate module, leaves
\* registry, sys.modules and sys.path as they were whatever the registry
\* holds, and sets no memo
C19_NoProjectRootGivesEmptyMap ==
  [][ ( result'.op = "discover" /\ project_root = None )
      => /\ result'.raised = "" /\ result'.map = EmptyMap
         /\ ~result'.loaded /\ result'.error_lines = <<>>
         /\ << registry, sys_modules, sys_path >>'
              = << registry, sys_modules, sys_path >>
         /\ _hooks' = NoMemo ]_vars

\* discover_hooks() returned the empty map for want of a project root, in a
\* process whose registry holds a class
C19_EmptyMapDespiteRegisteredClass ==
  /\ result.op = "discover" /\ project_root = None
  /\ result.raised = "" /\ result.map = EmptyMap
  /\ registry # <<>>

\* C20: with the root unresolved, every operation that depends on it fails
\* with its specific error and none takes the current directory in place of
\* the root: find_project_root() of the gateway raises GitHookLibException,
\* _import_hook_module raises and neither resolves the path against cwd nor
\* puts cwd on sys.path, and install() returns False with an error logged
C20_UnresolvedRootFailsWithoutCwd ==
  /\ ( result.op = "find_project_root" /\ ~result.found )
       => /\ result.raised = "GitHookLibException"
          /\ result.message = "Could not find git repository"
  /\ ( result.op = "import" /\ ~result.resolved )
       => /\ result.raised # ""
          /\ result.base_dir # cwd
          /\ cwd \notin result.inserted
  /\ ( result.op = "hook install"
       /\ _find_project_root(result.class.module) = None )
       => /\ ~result.value /\ result.raised = ""
          /\ result.level = "ERROR" /\ result.log # ""

\* C21: find_git_root() returns the root of the work tree around cwd, the
\* directory that holds .git, and where both strategies find a repository
\* they give the same path
C21_GitRootIsWorkTreeRootByEitherStrategy ==
  ( result.op = "find_git_root" /\ result.value # None )
    => /\ exists(result.value \o <<".git">>)
       /\ result.value = _find_git_root_via_filesystem
       /\ gateway_find_git_root_via_command(result.git) # None
            => gateway_find_git_root_via_command(result.git)
                 = _find_git_root_via_filesystem

\* C22: find_git_root() takes the answer of the git command only where .git
\* exists at the directory git printed; with git absent, exiting non-zero or
\* printing a directory without .git it gives what the walk from cwd up to
\* the filesystem root finds; with no .git at cwd or above it returns None;
\* in none of these cases does it raise
C22_CommandFirstThenWalkElseNone ==
  result.op = "find_git_root"
    => /\ result.raised = ""
       /\ result.strategy = "command"
            => /\ result.git = "ok" /\ exists(result.value)
               /\ result.value
                    = git_rev_parse_show_toplevel(cwd) \o <<".git">>
       /\ result.strategy = "filesystem"
            => result.value = _find_git_root_via_filesystem
       /\ result.git \in { "absent", "fails", "elsewhere" }
            => result.strategy = "filesystem"
       /\ ( \A q \in Range(self_and_parents(cwd)) : ~exists(q \o <<".git">>) )
            => result.value = None

\* git printed a directory without .git and find_git_root() returned the
\* work tree the walk from a subdirectory found
C22_StaleAnswerThenWalkFound ==
  /\ result.op = "find_git_root" /\ result.git = "elsewhere"
  /\ result.strategy = "filesystem" /\ result.raised = ""
  /\ cwd # repo /\ result.value = repo

\* C23: where a repository is found, find_project_root() of the gateway
\* returns the work tree root, the directory that holds .git, whichever
\* strategy found the git root
C23_ProjectRootIsWorkTreeRoot ==
  ( result.op = "find_project_root" /\ result.found )
    => /\ result.raised = ""
       /\ exists(result.value \o <<".git">>)
       /\ result.value = _find_git_root_via_filesystem

\* a file of the hooks directory whose read raises: the owner may not read
\* it, or its bytes are not UTF-8
ReadFails(n) == ~S_IRUSR(slot[n].mode) \/ slot[n].content = UndecodableText

\* C24: get_installed_hooks returns one entry for each regular file of the
\* hooks directory whose name does not end in ".sample" and for nothing
\* else; a file that cannot be read is reported as not tool-owned, every
\* other file by the markers in its text; classifying one path, present or
\* not, returns without raising
C24_OneEntryPerFileUnreadableNotOwned ==
  /\ result.op = "show"
       => /\ DOMAIN result.map
               = { n \in DOMAIN slot : /\ ~S_ISDIR(slot[n].mode)
                                       /\ ~endswith(n, ".sample") }
          /\ \A n \in DOMAIN result.map :
               /\ ReadFails(n) => ~result.map[n]
               /\ ~ReadFails(n)
                    => result.map[n] = _is_hook_from_githooklib(slot[n].content)
  /\ result.op = "classify"
       => /\ result.raised = ""
          /\ ( result.name \notin DOMAIN slot \/ S_ISDIR(slot[result.name].mode)
               \/ ReadFails(result.name) ) => ~result.value

\* the classification of a directory that holds a delegator the owner may
\* not read, a readable delegator, a sample and a subdirectory: the first is
\* reported not tool-owned, the second tool-owned, the others not at all
C24_UnreadableReportedOthersClassified ==
  /\ result.op = "show"
  /\ DOMAIN slot = HooksDirNames
  /\ ~S_IRUSR(slot["pre-commit"].mode) /\ slot["pre-commit"].installer
  /\ S_ISDIR(slot["info"].mode)
  /\ result.map = [n \in { "pre-commit", "pre-push" } |-> n = "pre-push"]

\* C25: the delegator script finds a repository root exactly where
\* find_git_root() does, by the command validated by .git or else by the
\* walk up from the working directory, and resolves the same directory
C25_DelegatorLocatesRootAsFindGitRoot ==
  result.op = "delegator find_project_root"
    => /\ result.git_root # None <=> find_git_root(result.git) # None
       /\ result.git_root # None
            => result.git_root = find_git_root(result.git)

C27_GroupsWholeRegistryAfterLoads ==
  [][ ( result'.op = "discover" /\ ~_hooks.cached /\ project_root # None
        /\ result'.raised = "" )
      => /\ \A p \in Candidates : p \in Range(sys_modules')
         /\ \A i \in DOMAIN registry : registry'[i] = registry[i]
         /\ \A c \in Range(registry') :
              /\ c.hook_name \in DOMAIN result'.map
              /\ result'.map[c.hook_name] = c
         /\ \A n \in DOMAIN result'.map : result'.map[n] \in Range(registry')
    ]_vars

\* a discover_hooks() call without a memoized map returned a map that holds
\* a class registered before the call and a class the call's loads appended
C27_MapOfEarlierAndLoadedClasses ==
  /\ result.op = "discover" /\ ~result.memoized /\ result.raised = ""
  /\ \E c \in Range(result.before) :
       c.hook_name \in DOMAIN result.map /\ result.map[c.hook_name] = c
  /\ \E c \in Range(registry) \ Range(result.before) :
       c.hook_name \in DOMAIN result.map /\ result.map[c.hook_name] = c

\* C28: install(name) and uninstall(name) change nothing in the hooks
\* directory but the file called name: every other file there before the
\* call (another installed hook, a hand-authored hook, a sample) is there
\* afterwards with the same text and mode, and no other file appears
C28_OnlyNamedFileTouched ==
  [][ result'.op \in { "install", "uninstall" }
      => \A n \in ( DOMAIN slot \cup DOMAIN slot' ) \ { result'.name } :
           /\ n \in DOMAIN slot /\ n \in DOMAIN slot'
           /\ slot'[n] = slot[n] ]_vars

\* pre-push was uninstalled from a hooks directory that goes on holding an
\* installed pre-commit delegator and a sample
C28_UninstalledBesideOtherFiles ==
  /\ result.op = "uninstall" /\ result.ok /\ result.name = "pre-push"
  /\ "pre-push" \notin DOMAIN slot
  /\ DOMAIN slot = { "pre-commit", "pre-commit.sample" }
  /\ slot["pre-commit"].installer
  /\ slot["pre-commit.sample"] = SampleFile

\* the directory _import_hook_module puts on sys.path for module_path: the
\* base directory where the path lies under it, else the file's directory
SearchRoot(module_path, base_dir) ==
  IF is_relative_to(module_path, base_dir) THEN base_dir
  ELSE parent(module_path)

\* no entry occurs twice in path
NoDuplicates(path) ==
  \A i, j \in DOMAIN path : path[i] = path[j] => i = j

\* C29: whatever hook modules have been loaded, sys.path holds no entry
\* twice; a load whose directory is already an entry leaves sys.path as it
\* is, and a load whose directory is not puts it in front of the entries
\* there were, whether or not the import then succeeds
C29_SearchPathInsertedOnceAtFront ==
  [][ /\ NoDuplicates(sys_path')
      /\ result'.op = "import"
           => LET d == SearchRoot(result'.path, result'.base_dir)
              IN /\ d \in Range(sys_path) => sys_path' = sys_path
                 /\ d \notin Range(sys_path) => sys_path' = <<d>> \o sys_path
    ]_vars

\* a module was loaded whose directory an earlier load had put on sys.path,
\* behind the directory of a load made in between: sys.path was left alone
C29_LoadedAgainFromDirectoryAlreadyThere ==
  /\ result.op = "import" /\ result.inserted = {} /\ result.raised = ""
  /\ Len(sys_path) = Len(InitialSysPath) + 2
  /\ sys_path[2] = SearchRoot(result.path, result.base_dir)
  /\ NoDuplicates(sys_path)

\* C30: an install that returns False leaves the hooks directory as it was
\* before the call: no file is created and none is overwritten, also where
\* marking the written script executable is what failed
C30_FailedInstallLeavesDirectoryAlone ==
  [][ ( result'.op = "install" /\ ~result'.value ) => slot' = slot ]_vars

====
